---- MODULE Spec2Model ----
(***************************************************************************)
(* A model of docuguard's core algorithms:                                 *)
(*   - is_luhn_valid                 (entity/entity_recognizer.py)         *)
(*   - detect_entities_in_element    (entity/entity_recognizer.py)         *)
(*   - evaluate_entity_detection     (evaluation/evaluation.py)            *)
(*   - convert_bio_to_offset_entities (utils/data_loader.py)               *)
(* Strings are sequences of one-character strings.  Each algorithm has its *)
(* own specification (SpecLuhn, SpecResolve, SpecEval, SpecBio); the       *)
(* variables of the other algorithms stay at their idle values.            *)
(***************************************************************************)
EXTENDS Integers, Sequences, FiniteSets, TLC

VARIABLES
    card_number,        \* is_luhn_valid: the argument
    luhn_ret,           \* is_luhn_valid: "pending", then "True" or "False"
    element,            \* detect_entities_in_element: the DocumentElement
    pattern_entities,   \* what _detect_pii_patterns returned
    ner_entities,       \* what _detect_ner_entities returned
    combined_entities,  \* the list being built, returned after the sort
    covered_spans,      \* the set of covered character indices
    p_idx,              \* position of the first loop (1-based)
    n_idx,              \* position of the second loop (1-based)
    returned,           \* whether detect_entities_in_element has returned
    doc_elements,       \* evaluate_entity_detection: the elements, with entities
    ground_truth,       \* element id -> list of ground-truth entries
    label_map,          \* raw label -> label (a dict, keys = DOMAIN)
    match_strategy,     \* "exact" or "overlap"
    overlap_threshold,  \* a fraction [num, den]
    true_positives,     \* label -> count
    false_positives,    \* label -> count
    false_negatives,    \* label -> count
    unique_labels,      \* the labels seen
    pred_matches,       \* label -> set of matched (element id, prediction index)
    gt_matches,         \* label -> set of consumed (element id, ground-truth index)
    e_idx,              \* position of the loop over doc_elements (1-based)
    q_idx,              \* position of the loop over predictions; 0 before it
    results,            \* the returned dictionary
    ev_done,            \* whether evaluate_entity_detection has returned
    tokens,             \* convert_bio_to_offset_entities: the tokens
    labels,             \* the BIO tags, one per token
    trailing_whitespace, \* one boolean per token
    full_text,          \* the text
    entities,           \* the entities closed so far
    current_entity_tokens,      \* the tokens of the open entity, [] if none
    current_entity_label,       \* its label, or NoneLabel
    current_entity_start_char,  \* its start offset, or -1
    current_char_idx,           \* the cursor into full_text (0-based)
    previous_token_end_char,    \* the end offset of the token before
    tok_i,              \* position of the loop over the tokens (1-based)
    bio_pc,             \* "idle", "loop", "returned" or "aborted"
    bio_ret,            \* the list returned
    csv_rows,           \* run_kaggle_evaluation: the rows of the CSV file
    row_i,              \* position of the loader's loop over the rows (1-based)
    dataset,            \* the rows the loader kept
    doc_i,              \* position of the loop over dataset (1-based)
    doc,                \* doc.elements of the current document
    agg_tp,             \* label -> aggregated true positives (a fraction)
    agg_fp,             \* label -> aggregated false positives
    agg_fn,             \* label -> aggregated false negatives
    all_labels,         \* the labels aggregated so far
    final_metrics,      \* the aggregated metrics
    run_pc,             \* "idle", "load", "docs", "convert", "evaluate", "done"
    risk_arg,           \* assign_base_risk: the argument entity_type
    risk_ret,           \* its return value in hundredths, -1 before the call
    sens_label,         \* classify_entity_sensitivity: the argument label
    sens_context,       \* the argument context, an element or NoContext
    sens_ret,           \* its return value, "pending" before the call
    document,           \* detect_entities: document.elements, with entities
    elem_idx,           \* position of its loop over the elements (1-based)
    total_entities,     \* its running count of detected entities
    detect_calls,       \* how many calls of detect_entities have finished
    detect_pc,          \* "idle", "loop", "element", "done"
    pii_matches,        \* text -> what _detect_pii_patterns returns for it
    nlp,                \* text -> what _detect_ner_entities returns for it
    seg_text,           \* segment_document: the argument text
    seg_called,         \* whether segment_document has returned
    seg_ret,            \* the elements it returned
    file_path,          \* DocumentParser.parse: the argument file_path
    file_system,        \* path -> the text of the file, for the files that exist
    file_opened,        \* whether parse_text_file has called open()
    parse_ret           \* the outcome of parse: an exception or a Document

luhnVars == <<card_number, luhn_ret>>
resVars == <<element, pattern_entities, ner_entities, combined_entities,
             covered_spans, p_idx, n_idx, returned>>
evVars == <<doc_elements, ground_truth, label_map, match_strategy,
            overlap_threshold, true_positives, false_positives, false_negatives,
            unique_labels, pred_matches, gt_matches, e_idx, q_idx, results,
            ev_done>>
bioVars == <<tokens, labels, trailing_whitespace, full_text, entities,
             current_entity_tokens, current_entity_label,
             current_entity_start_char, current_char_idx,
             previous_token_end_char, tok_i, bio_pc, bio_ret>>
runVars == <<csv_rows, row_i, dataset, doc_i, doc, agg_tp, agg_fp, agg_fn,
             all_labels, final_metrics, run_pc>>
clsVars == <<risk_arg, risk_ret, sens_label, sens_context, sens_ret>>
detVars == <<document, elem_idx, total_entities, detect_calls, detect_pc,
             pii_matches, nlp>>
parseVars == <<seg_text, seg_called, seg_ret, file_path, file_system,
               file_opened, parse_ret>>
vars == <<luhnVars, resVars, evVars, bioVars, runVars, clsVars, detVars,
          parseVars>>

(***************************************************************************)
(* Bounds of the model.                                                    *)
(***************************************************************************)
MaxLuhnLen == 3
MaxPat == 2
MaxNer == 2
MaxEvalEntries == 3
MaxTokens == 3
MaxRows == 2

MaxRuns == 2

MaxElements == 2

MaxTextLen == 8

(***************************************************************************)
(* Generic helpers.                                                        *)
(***************************************************************************)
SeqsUpTo(S, n) == UNION {[1..k -> S] : k \in 0..n}

Range(s) == {s[i] : i \in 1..Len(s)}

RECURSIVE SumSeq(_)
SumSeq(s) == IF s = <<>> THEN 0 ELSE Head(s) + SumSeq(Tail(s))

Reverse(s) == [i \in 1..Len(s) |-> s[Len(s) + 1 - i]]

(***************************************************************************)
(* is_luhn_valid (entity_recognizer.py 11-19).                             *)
(***************************************************************************)
DigitChars == {"0", "1", "2", "3", "4", "5", "6", "7", "8", "9"}

\* int(d) for a one-character decimal digit
DigitValue(c) ==
    CASE c = "0" -> 0 [] c = "1" -> 1 [] c = "2" -> 2 [] c = "3" -> 3
      [] c = "4" -> 4 [] c = "5" -> 5 [] c = "6" -> 6 [] c = "7" -> 7
      [] c = "8" -> 8 [] c = "9" -> 9

\* str.isdigit() on the characters of the model's alphabet
IsDigit(c) == c \in DigitChars

\* num = [int(d) for d in str(card_number) if d.isdigit()]
LuhnDigits(s) ==
    LET ds == SelectSeq(s, IsDigit)
    IN  [i \in 1..Len(ds) |-> DigitValue(ds[i])]

\* sum(divmod(2 * d, 10))
DivmodSum(d) == ((2 * d) \div 10) + ((2 * d) % 10)

LuhnTerm_double_even(i, d) == IF i % 2 = 0 THEN DivmodSum(d) ELSE d

\* the generator's term for enumerate index i (0-based) and digit d
LuhnTerm(i, d) == IF i % 2 # 0 THEN DivmodSum(d) ELSE d

\* checksum = sum(... for i, d in enumerate(num[::-1]))
LuhnCodeChecksum(num) ==
    LET rev == Reverse(num)
    IN  SumSeq([k \in 1..Len(rev) |-> LuhnTerm(k - 1, rev[k])])

is_luhn_valid(s) == LuhnCodeChecksum(LuhnDigits(s)) % 10 = 0

\* re.sub(r'[- ]', '', text_val)
StripSeparators(s) == SelectSeq(s, LAMBDA c : c \notin {"-", " "})

Card_Valid == <<"4","5","3","2","0","1","5","1","1","2","8","3","0","3","6","6">>
Card_Invalid == <<"4","5","3","2","0","1","5","1","1","2","8","3","0","3","6","7">>
Card_Dashed == <<"4","5","3","2","-","0","1","5","1","-","1","2","8","3","-","0","3","6","6">>

LuhnChars == DigitChars \cup {"-", " ", "x"}

LuhnInputs == SeqsUpTo(LuhnChars, MaxLuhnLen) \cup {Card_Valid, Card_Invalid, Card_Dashed}

InitLuhn ==
    /\ card_number \in LuhnInputs
    /\ luhn_ret = "pending"

IdleLuhn ==
    /\ card_number = <<>>
    /\ luhn_ret = "idle"

IsLuhnValid ==
    /\ luhn_ret = "pending"
    /\ luhn_ret' = IF is_luhn_valid(card_number) THEN "True" ELSE "False"
    /\ UNCHANGED card_number
    /\ UNCHANGED <<resVars, evVars, bioVars, runVars, clsVars, detVars, parseVars>>

(***************************************************************************)
(* assign_base_risk (entity_risk.py), scores in hundredths, and            *)
(* classify_entity_sensitivity (entity_recognizer.py 65-77).               *)
(***************************************************************************)
BASE_RISK_SCORES ==
    [l \in {"EMAIL", "PHONE", "SSN", "DATE_PATTERN", "CREDIT_CARD", "ZIP_CODE",
            "ADDRESS", "PERSON", "ORG", "GPE", "LOC", "DATE", "TIME", "MONEY",
            "PERCENT", "FAC", "PRODUCT", "EVENT", "WORK_OF_ART", "LAW",
            "LANGUAGE", "NORP", "QUANTITY", "ORDINAL", "CARDINAL", "UNKNOWN"} |->
        CASE l = "EMAIL" -> 80 [] l = "PHONE" -> 70 [] l = "SSN" -> 100
          [] l = "DATE_PATTERN" -> 50 [] l = "CREDIT_CARD" -> 100
          [] l = "ZIP_CODE" -> 40 [] l = "ADDRESS" -> 70 [] l = "PERSON" -> 60
          [] l = "ORG" -> 30 [] l = "GPE" -> 20 [] l = "LOC" -> 30
          [] l = "DATE" -> 50 [] l = "TIME" -> 10 [] l = "MONEY" -> 60
          [] l = "PERCENT" -> 5 [] l = "FAC" -> 20 [] l = "PRODUCT" -> 5
          [] l = "EVENT" -> 20 [] l = "WORK_OF_ART" -> 5 [] l = "LAW" -> 10
          [] l = "LANGUAGE" -> 0 [] l = "NORP" -> 40 [] l = "QUANTITY" -> 5
          [] l = "ORDINAL" -> 5 [] l = "CARDINAL" -> 5 [] l = "UNKNOWN" -> 0]

\* the characters of the label strings the model uses
LabelChars ==
    "EMAIL" :> <<"E", "M", "A", "I", "L">> @@
    "PHONE" :> <<"P", "H", "O", "N", "E">> @@
    "SSN" :> <<"S", "S", "N">> @@
    "DATE_PATTERN" :> <<"D", "A", "T", "E", "_", "P", "A", "T", "T", "E", "R", "N">> @@
    "CREDIT_CARD" :> <<"C", "R", "E", "D", "I", "T", "_", "C", "A", "R", "D">> @@
    "ZIP_CODE" :> <<"Z", "I", "P", "_", "C", "O", "D", "E">> @@
    "ADDRESS" :> <<"A", "D", "D", "R", "E", "S", "S">> @@
    "PERSON" :> <<"P", "E", "R", "S", "O", "N">> @@
    "ORG" :> <<"O", "R", "G">> @@
    "GPE" :> <<"G", "P", "E">> @@
    "LOC" :> <<"L", "O", "C">> @@
    "DATE" :> <<"D", "A", "T", "E">> @@
    "TIME" :> <<"T", "I", "M", "E">> @@
    "MONEY" :> <<"M", "O", "N", "E", "Y">> @@
    "PERCENT" :> <<"P", "E", "R", "C", "E", "N", "T">> @@
    "FAC" :> <<"F", "A", "C">> @@
    "PRODUCT" :> <<"P", "R", "O", "D", "U", "C", "T">> @@
    "EVENT" :> <<"E", "V", "E", "N", "T">> @@
    "WORK_OF_ART" :> <<"W", "O", "R", "K", "_", "O", "F", "_", "A", "R", "T">> @@
    "LAW" :> <<"L", "A", "W">> @@
    "LANGUAGE" :> <<"L", "A", "N", "G", "U", "A", "G", "E">> @@
    "NORP" :> <<"N", "O", "R", "P">> @@
    "QUANTITY" :> <<"Q", "U", "A", "N", "T", "I", "T", "Y">> @@
    "ORDINAL" :> <<"O", "R", "D", "I", "N", "A", "L">> @@
    "CARDINAL" :> <<"C", "A", "R", "D", "I", "N", "A", "L">> @@
    "UNKNOWN" :> <<"U", "N", "K", "N", "O", "W", "N">> @@
    "person" :> <<"p", "e", "r", "s", "o", "n">> @@
    "Person" :> <<"P", "e", "r", "s", "o", "n">> @@
    "ssn" :> <<"s", "s", "n">> @@
    "Email" :> <<"E", "m", "a", "i", "l">> @@
    "credit_card" :> <<"c", "r", "e", "d", "i", "t", "_", "c", "a", "r", "d">> @@
    "Zip_Code" :> <<"Z", "i", "p", "_", "C", "o", "d", "e">> @@
    "unknown" :> <<"u", "n", "k", "n", "o", "w", "n">> @@
    "foo" :> <<"f", "o", "o">> @@
    "Foo" :> <<"F", "o", "o">> @@
    "FOO" :> <<"F", "O", "O">> @@
    "" :> <<>> @@
    "PHONE_NUM" :> <<"P", "H", "O", "N", "E", "_", "N", "U", "M">> @@
    "phone_num" :> <<"p", "h", "o", "n", "e", "_", "n", "u", "m">>

\* str.upper() of one character
UpperChar(c) ==
    CASE c = "a" -> "A" [] c = "b" -> "B" [] c = "c" -> "C" [] c = "d" -> "D"
      [] c = "e" -> "E" [] c = "f" -> "F" [] c = "g" -> "G" [] c = "h" -> "H"
      [] c = "i" -> "I" [] c = "j" -> "J" [] c = "k" -> "K" [] c = "l" -> "L"
      [] c = "m" -> "M" [] c = "n" -> "N" [] c = "o" -> "O" [] c = "p" -> "P"
      [] c = "q" -> "Q" [] c = "r" -> "R" [] c = "s" -> "S" [] c = "t" -> "T"
      [] c = "u" -> "U" [] c = "v" -> "V" [] c = "w" -> "W" [] c = "x" -> "X"
      [] c = "y" -> "Y" [] c = "z" -> "Z"
      [] OTHER -> c

\* entity_type.upper(): the label string whose characters are the
\* upper-cased characters of entity_type
Upper(entity_type) ==
    LET chars == LabelChars[entity_type]
        upper == [k \in 1..Len(chars) |-> UpperChar(chars[k])]
    IN  CHOOSE l \in DOMAIN LabelChars : LabelChars[l] = upper

assign_base_risk_case_sensitive(entity_type) ==
    IF entity_type \in DOMAIN BASE_RISK_SCORES
    THEN BASE_RISK_SCORES[entity_type]
    ELSE BASE_RISK_SCORES["UNKNOWN"]

\* lines 40-43
assign_base_risk(entity_type) ==
    LET normalized_type == Upper(entity_type)
    IN  IF normalized_type \in DOMAIN BASE_RISK_SCORES
        THEN BASE_RISK_SCORES[normalized_type]
        ELSE BASE_RISK_SCORES["UNKNOWN"]

\* context = None
NoContext == [text |-> <<>>, type |-> "none", id |-> "none"]

classify_entity_sensitivity_elevating(label, context) ==
    IF label \in {"EMAIL", "PHONE", "SSN", "CREDIT_CARD"}
    THEN "explicit-identifier"
    ELSE IF label = "PERSON" /\ context # NoContext /\ context.type = "heading"
    THEN "explicit-identifier"
    ELSE "quasi-identifier"

\* lines 65-77; the branch for a PERSON in a heading only prints
classify_entity_sensitivity(label, context) ==
    IF label \in {"EMAIL", "PHONE", "SSN", "CREDIT_CARD"}
    THEN "explicit-identifier"
    ELSE IF label = "PERSON" /\ context # NoContext /\ context.type = "heading"
    THEN "quasi-identifier"
    ELSE "quasi-identifier"

(***************************************************************************)
(* detect_entities_in_element (entity_recognizer.py 79-130).               *)
(* A candidate is the tuple (text, start, end, label) of the detectors, as *)
(* a record.  The first loop is PatternStep, the second NerStep, the sort  *)
(* and the return SortReturn.                                              *)
(***************************************************************************)
\* the keys of PII_PATTERNS in the dict's (insertion) order
PII_PATTERNS ==
    <<"EMAIL", "PHONE", "SSN", "DATE_PATTERN", "CREDIT_CARD", "ZIP_CODE",
      "ADDRESS", "URL">>

PatternRank(label) == CHOOSE i \in 1..Len(PII_PATTERNS) : PII_PATTERNS[i] = label

\* set(range(start, end))
SpanSet(start, end) == start..(end - 1)

SpanFree_always(start, end, covered) == TRUE

\* not current_span.intersection(covered_spans)
SpanFree(start, end, covered) == SpanSet(start, end) \cap covered = {}

LuhnRejected_never(cand) == FALSE

\* label == 'CREDIT_CARD' and not is_luhn_valid(re.sub(r'[- ]', '', text_val))
LuhnRejected(cand) ==
    /\ cand.label = "CREDIT_CARD"
    /\ ~is_luhn_valid(StripSeparators(cand.text))

\* Entity(text=..., label=..., start_char=..., end_char=..., ...)
MakeEntity(cand, source, elem) ==
    [text |-> cand.text, label |-> cand.label,
     start_char |-> cand.start, end_char |-> cand.end,
     base_risk_score |-> assign_base_risk(cand.label),
     sensitivity_type |-> classify_entity_sensitivity(cand.label, elem),
     source |-> source, element_type |-> elem.type]

\* list.sort(key=lambda e: e.start_char): stable insertion by start_char
RECURSIVE InsertByStart(_, _)
InsertByStart(sorted, e) ==
    IF sorted = <<>> THEN <<e>>
    ELSE IF sorted[Len(sorted)].start_char <= e.start_char
         THEN Append(sorted, e)
         ELSE Append(InsertByStart(SubSeq(sorted, 1, Len(sorted) - 1), e),
                     sorted[Len(sorted)])

SortByStart_unsorted(list) == list

RECURSIVE SortByStart(_)
SortByStart(list) ==
    IF list = <<>> THEN <<>>
    ELSE InsertByStart(SortByStart(SubSeq(list, 1, Len(list) - 1)), list[Len(list)])

\* the body of either loop once the checksum has not rejected the candidate
AcceptOrDiscard(cand, source) ==
    IF SpanFree(cand.start, cand.end, covered_spans)
    THEN /\ combined_entities' =
                Append(combined_entities, MakeEntity(cand, source, element))
         /\ covered_spans' = covered_spans \cup SpanSet(cand.start, cand.end)
    ELSE UNCHANGED <<combined_entities, covered_spans>>

PatternStep ==
    /\ ~returned
    /\ p_idx <= Len(pattern_entities)
    /\ LET cand == pattern_entities[p_idx]
       IN  IF LuhnRejected(cand)
           THEN UNCHANGED <<combined_entities, covered_spans>>
           ELSE AcceptOrDiscard(cand, "pattern")
    /\ p_idx' = p_idx + 1
    /\ UNCHANGED <<element, pattern_entities, ner_entities, n_idx, returned>>
    /\ UNCHANGED <<luhnVars, evVars, bioVars, runVars, clsVars, detVars, parseVars>>

NerStep ==
    /\ ~returned
    /\ p_idx > Len(pattern_entities)
    /\ n_idx <= Len(ner_entities)
    /\ AcceptOrDiscard(ner_entities[n_idx], "ner")
    /\ n_idx' = n_idx + 1
    /\ UNCHANGED <<element, pattern_entities, ner_entities, p_idx, returned>>
    /\ UNCHANGED <<luhnVars, evVars, bioVars, runVars, clsVars, detVars, parseVars>>

SortReturn ==
    /\ ~returned
    /\ p_idx > Len(pattern_entities)
    /\ n_idx > Len(ner_entities)
    /\ combined_entities' = SortByStart(combined_entities)
    /\ returned' = TRUE
    /\ UNCHANGED <<element, pattern_entities, ner_entities, covered_spans,
                   p_idx, n_idx>>
    /\ UNCHANGED <<luhnVars, evVars, bioVars, runVars, clsVars, detVars, parseVars>>

(***************************************************************************)
(* The inputs of detect_entities_in_element.                               *)
(* _detect_pii_patterns (48-55) walks PII_PATTERNS in order and, for each  *)
(* pattern, re.finditer: matches of one pattern come left to right and do  *)
(* not overlap, every match is non-empty and inside the text.              *)
(* _detect_ner_entities (57-63) relays whatever self.nlp returns: the      *)
(* model is loaded by name at run time and its entities are not checked,   *)
(* so a model candidate is any (text, start, end, label).                  *)
(***************************************************************************)
Elements == {[id |-> "e1", text |-> <<"a", "b", "c">>, type |-> "paragraph"]}

TextLen(elem) == Len(elem.text)

ValidSpans(elem) ==
    {sp \in (0..TextLen(elem)) \X (0..TextLen(elem)) : sp[1] < sp[2]}

\* spans no well-formed detector reports: empty, reversed, beyond the text
InvalidSpans(elem) ==
    {<<1, 1>>, <<2, 1>>, <<TextLen(elem) - 1, TextLen(elem) + 1>>}

OtherText == <<"t">>

PatternCands(elem) ==
    {[text |-> t, start |-> sp[1], end |-> sp[2], label |-> "CREDIT_CARD"] :
        t \in {Card_Valid, Card_Invalid}, sp \in ValidSpans(elem)}
    \cup
    {[text |-> OtherText, start |-> sp[1], end |-> sp[2], label |-> "ZIP_CODE"] :
        sp \in ValidSpans(elem)}

FinditerOrder(l) ==
    \A i, j \in 1..Len(l) :
        i < j =>
            \/ PatternRank(l[i].label) < PatternRank(l[j].label)
            \/ /\ l[i].label = l[j].label
               /\ l[i].end <= l[j].start

PatternLists(elem) == {l \in SeqsUpTo(PatternCands(elem), MaxPat) : FinditerOrder(l)}

NerCands(elem) ==
    {[text |-> IF sp[1] < sp[2] THEN OtherText ELSE <<>>,
      start |-> sp[1], end |-> sp[2], label |-> "PERSON"] :
        sp \in ValidSpans(elem) \cup InvalidSpans(elem)}

NerLists(elem) == SeqsUpTo(NerCands(elem), MaxNer)

InitResolve ==
    /\ element \in Elements
    /\ pattern_entities \in PatternLists(element)
    /\ ner_entities \in NerLists(element)
    /\ combined_entities = <<>>
    /\ covered_spans = {}
    /\ p_idx = 1
    /\ n_idx = 1
    /\ returned = FALSE

IdleResolve ==
    /\ element = [id |-> "none", text |-> <<>>, type |-> "none"]
    /\ pattern_entities = <<>>
    /\ ner_entities = <<>>
    /\ combined_entities = <<>>
    /\ covered_spans = {}
    /\ p_idx = 1
    /\ n_idx = 1
    /\ returned = TRUE

(***************************************************************************)
(* evaluate_entity_detection (evaluation.py 42-145).                       *)
(* ElementStart is lines 72-78, MatchPrediction one pass of the loop at    *)
(* 81-117, CountFalseNegatives lines 120-124, ComputeMetrics 127-145.      *)
(* Positions in lists are 1-based here.  A float is a fraction <<n, d>>    *)
(* in lowest terms.                                                        *)
(***************************************************************************)
Max2(a, b) == IF a >= b THEN a ELSE b

Min2(a, b) == IF a <= b THEN a ELSE b

RECURSIVE Gcd(_, _)
Gcd(a, b) == IF b = 0 THEN a ELSE Gcd(b, a % b)

\* n / d
Frac(n, d) == LET g == Gcd(n, d) IN IF n = 0 THEN <<0, 1>> ELSE <<n \div g, d \div g>>

FracZero == <<0, 1>>

FracAdd(x, y) == Frac(x[1] * y[2] + y[1] * x[2], x[2] * y[2])

FracMul(x, y) == Frac(x[1] * y[1], x[2] * y[2])

FracDiv(x, y) == Frac(x[1] * y[2], x[2] * y[1])

FracPositive(x) == x[1] > 0

\* _calculate_overlap
calculate_overlap(pred_start, pred_end, gt_start, gt_end) ==
    Max2(0, Min2(pred_end, gt_end) - Max2(pred_start, gt_start))

MappedLabel_raw(map, gt) == gt.label

\* label_map.get(gt['label'], gt['label'])
MappedLabel(map, gt) == IF gt.label \in DOMAIN map THEN map[gt.label] ELSE gt.label

Increment_assign(counter, label) == [counter EXCEPT ![label] = 1]

\* counter[label] += 1
Increment(counter, label) == [counter EXCEPT ![label] = @ + 1]

\* the label under which line 121 counts a false negative
FnLabel(map, gt) == MappedLabel(map, gt)

\* ground_truth.get(elem_id, [])
GtOfElement(gt_dict, elem_id) ==
    IF elem_id \in DOMAIN gt_dict THEN gt_dict[elem_id] ELSE <<>>

ExactEqual_span_only(pred, gt) ==
    /\ pred.start_char = gt.start_char
    /\ pred.end_char = gt.end_char

\* line 93
ExactEqual(pred, gt) ==
    /\ pred.text = gt.text
    /\ pred.start_char = gt.start_char
    /\ pred.end_char = gt.end_char

OverlapQualifies_pred_only(pred, gt, threshold) ==
    LET overlap == calculate_overlap(pred.start_char, pred.end_char,
                                     gt.start_char, gt.end_char)
        pred_len == pred.end_char - pred.start_char
    IN  /\ pred_len > 0
        /\ overlap * threshold.den >= threshold.num * pred_len

\* line 102, with overlap / len >= threshold as overlap * den >= num * len
OverlapQualifies(pred, gt, threshold) ==
    LET overlap == calculate_overlap(pred.start_char, pred.end_char,
                                     gt.start_char, gt.end_char)
        pred_len == pred.end_char - pred.start_char
        gt_len == gt.end_char - gt.start_char
    IN  /\ pred_len > 0
        /\ overlap * threshold.den >= threshold.num * pred_len
        /\ gt_len > 0
        /\ overlap * threshold.den >= threshold.num * gt_len

AlreadyMatched_never(matches, label, elem_id, gt_idx) == FALSE

\* line 88: gt_id in gt_matches.get(pred.label, set())
AlreadyMatched(matches, label, elem_id, gt_idx) == <<elem_id, gt_idx>> \in matches[label]

\* lines 86-105: the loop over the element's ground truth, from gt_idx on,
\* with the running best_match_gt_idx and max_overlap
RECURSIVE FindMatch_first_qualifying(_, _, _, _, _, _)
FindMatch_first_qualifying(pred, gts, ctx, gt_idx, best_match_gt_idx, max_overlap) ==
    IF gt_idx > Len(gts) THEN best_match_gt_idx
    ELSE
      LET gt == gts[gt_idx]
          overlap == calculate_overlap(pred.start_char, pred.end_char,
                                       gt.start_char, gt.end_char)
          take == /\ ~AlreadyMatched(ctx.matches, pred.label, ctx.elem_id,
                                     gt_idx)
                  /\ pred.label = MappedLabel(ctx.map, gt)
      IN  IF take /\ ctx.strategy = "exact" /\ ExactEqual(pred, gt)
          THEN gt_idx
          ELSE IF /\ take
                  /\ ctx.strategy = "overlap"
                  /\ OverlapQualifies(pred, gt, ctx.threshold)
                  /\ best_match_gt_idx = -1
               THEN FindMatch_first_qualifying(pred, gts, ctx, gt_idx + 1, gt_idx,
                                               overlap)
               ELSE FindMatch_first_qualifying(pred, gts, ctx, gt_idx + 1,
                                               best_match_gt_idx, max_overlap)

RECURSIVE FindMatch(_, _, _, _, _, _)
FindMatch(pred, gts, ctx, gt_idx, best_match_gt_idx, max_overlap) ==
    IF gt_idx > Len(gts) THEN best_match_gt_idx
    ELSE
      LET gt == gts[gt_idx]
          overlap == calculate_overlap(pred.start_char, pred.end_char,
                                       gt.start_char, gt.end_char)
          take == /\ ~AlreadyMatched(ctx.matches, pred.label, ctx.elem_id,
                                     gt_idx)
                  /\ pred.label = MappedLabel(ctx.map, gt)
      IN  IF take /\ ctx.strategy = "exact" /\ ExactEqual(pred, gt)
          THEN gt_idx
          ELSE IF /\ take
                  /\ ctx.strategy = "overlap"
                  /\ OverlapQualifies(pred, gt, ctx.threshold)
                  /\ overlap > max_overlap
               THEN FindMatch(pred, gts, ctx, gt_idx + 1, gt_idx, overlap)
               ELSE FindMatch(pred, gts, ctx, gt_idx + 1, best_match_gt_idx,
                              max_overlap)

\* lines 120-124: the labels (one per unmatched ground-truth entry, from
\* gt_idx on) whose false_negatives count goes up
RECURSIVE UnmatchedLabels(_, _, _, _, _)
UnmatchedLabels(gts, elem_id, matches, map, gt_idx) ==
    IF gt_idx > Len(gts) THEN <<>>
    ELSE LET gt_label == FnLabel(map, gts[gt_idx])
             rest == UnmatchedLabels(gts, elem_id, matches, map, gt_idx + 1)
         IN  IF ~AlreadyMatched(matches, gt_label, elem_id, gt_idx)
             THEN <<gt_label>> \o rest
             ELSE rest

CountOf(seq, x) == Cardinality({i \in 1..Len(seq) : seq[i] = x})

\* the labels a run can count under
EvalLabels ==
    {"PERSON", "PHONE", "PHONE_NUM", "NAME_STUDENT", "ADDRESS", "EMAIL"}

CurrentElement == doc_elements[e_idx]

ElementStart ==
    /\ ~ev_done
    /\ e_idx <= Len(doc_elements)
    /\ q_idx = 0
    /\ unique_labels' =
          unique_labels
          \cup {CurrentElement.entities[i].label :
                  i \in 1..Len(CurrentElement.entities)}
          \cup {MappedLabel(label_map, gt) :
                  gt \in Range(GtOfElement(ground_truth, CurrentElement.id))}
    /\ q_idx' = 1
    /\ UNCHANGED <<doc_elements, ground_truth, label_map, match_strategy,
                   overlap_threshold, true_positives, false_positives,
                   false_negatives, pred_matches, gt_matches, e_idx, results,
                   ev_done>>
    /\ UNCHANGED <<luhnVars, resVars, bioVars, runVars, clsVars, detVars, parseVars>>

MatchPrediction ==
    /\ ~ev_done
    /\ e_idx <= Len(doc_elements)
    /\ q_idx >= 1
    /\ q_idx <= Len(CurrentElement.entities)
    /\ LET elem_id == CurrentElement.id
           pred == CurrentElement.entities[q_idx]
           ctx == [elem_id |-> elem_id, matches |-> gt_matches,
                   map |-> label_map, strategy |-> match_strategy,
                   threshold |-> overlap_threshold]
           best == FindMatch(pred, GtOfElement(ground_truth, elem_id), ctx,
                             1, -1, -1)
       IN  IF best # -1 /\ ~AlreadyMatched(gt_matches, pred.label, elem_id, best)
           THEN /\ true_positives' = Increment(true_positives, pred.label)
                /\ pred_matches' =
                      [pred_matches EXCEPT ![pred.label] = @ \cup {<<elem_id, q_idx>>}]
                /\ gt_matches' =
                      [gt_matches EXCEPT ![pred.label] = @ \cup {<<elem_id, best>>}]
                /\ UNCHANGED false_positives
           ELSE /\ false_positives' = Increment(false_positives, pred.label)
                /\ UNCHANGED <<true_positives, pred_matches, gt_matches>>
    /\ q_idx' = q_idx + 1
    /\ UNCHANGED <<doc_elements, ground_truth, label_map, match_strategy,
                   overlap_threshold, false_negatives, unique_labels, e_idx,
                   results, ev_done>>
    /\ UNCHANGED <<luhnVars, resVars, bioVars, runVars, clsVars, detVars, parseVars>>

CountFalseNegatives ==
    /\ ~ev_done
    /\ e_idx <= Len(doc_elements)
    /\ q_idx > Len(CurrentElement.entities)
    /\ LET missed == UnmatchedLabels(GtOfElement(ground_truth, CurrentElement.id),
                                     CurrentElement.id, gt_matches, label_map, 1)
       IN  false_negatives' =
              [l \in EvalLabels |-> false_negatives[l] + CountOf(missed, l)]
    /\ e_idx' = e_idx + 1
    /\ q_idx' = 0
    /\ UNCHANGED <<doc_elements, ground_truth, label_map, match_strategy,
                   overlap_threshold, true_positives, false_positives,
                   unique_labels, pred_matches, gt_matches, results, ev_done>>
    /\ UNCHANGED <<luhnVars, resVars, bioVars, runVars, clsVars, detVars, parseVars>>

MetricsOf_recall_over_fp(tp, fp, fn) ==
    LET precision == IF tp + fp > 0 THEN Frac(tp, tp + fp) ELSE FracZero
        recall == IF tp + fp > 0 THEN Frac(tp, tp + fp) ELSE FracZero
        f1 == IF FracPositive(FracAdd(precision, recall))
              THEN FracDiv(FracMul(<<2, 1>>, FracMul(precision, recall)),
                           FracAdd(precision, recall))
              ELSE FracZero
    IN  [precision |-> precision, recall |-> recall, f1 |-> f1,
         support |-> tp + fn]

\* lines 133-136 and 139-142: precision, recall, f1, support from counts
MetricsOf(tp, fp, fn) ==
    LET precision == IF tp + fp > 0 THEN Frac(tp, tp + fp) ELSE FracZero
        recall == IF tp + fn > 0 THEN Frac(tp, tp + fn) ELSE FracZero
        f1 == IF FracPositive(FracAdd(precision, recall))
              THEN FracDiv(FracMul(<<2, 1>>, FracMul(precision, recall)),
                           FracAdd(precision, recall))
              ELSE FracZero
    IN  [precision |-> precision, recall |-> recall, f1 |-> f1,
         support |-> tp + fn]

SumOver(f, S) == SumSeq([i \in 1..Len(S) |-> f[S[i]]])

RECURSIVE SetToSeq(_)
SetToSeq(S) ==
    IF S = {} THEN <<>>
    ELSE LET x == CHOOSE y \in S : TRUE IN <<x>> \o SetToSeq(S \ {x})

ComputeMetrics ==
    /\ ~ev_done
    /\ e_idx > Len(doc_elements)
    /\ LET label_seq == SetToSeq(unique_labels)
           all_tp == SumOver(true_positives, label_seq)
           all_fp == SumOver(false_positives, label_seq)
           all_fn == SumOver(false_negatives, label_seq)
       IN  results' =
              [per_class |->
                  [l \in unique_labels |->
                      MetricsOf(true_positives[l], false_positives[l],
                                false_negatives[l])],
               overall |-> MetricsOf(all_tp, all_fp, all_fn)]
    /\ ev_done' = TRUE
    /\ UNCHANGED <<doc_elements, ground_truth, label_map, match_strategy,
                   overlap_threshold, true_positives, false_positives,
                   false_negatives, unique_labels, pred_matches, gt_matches,
                   e_idx, q_idx>>
    /\ UNCHANGED <<luhnVars, resVars, bioVars, runVars, clsVars, detVars, parseVars>>

(***************************************************************************)
(* The inputs of evaluate_entity_detection: one enumerated element         *)
(* followed by a fixed second element, evaluated with the label map of     *)
(* run_evaluation.py, and the two worked examples of the specification,    *)
(* evaluated without a label map.                                          *)
(***************************************************************************)
KAGGLE_TO_DOCUGUARD_LABEL_MAP ==
    [l \in {"USERNAME", "ID_NUM", "EMAIL", "URL_PERSONAL", "PHONE_NUM",
            "STREET_ADDRESS", "NAME_STUDENT", "NAME_TEACHER", "LOCATION",
            "DATE_OB"} |->
        CASE l = "USERNAME" -> "USERNAME" [] l = "ID_NUM" -> "ID_NUM"
          [] l = "EMAIL" -> "EMAIL" [] l = "URL_PERSONAL" -> "URL"
          [] l = "PHONE_NUM" -> "PHONE" [] l = "STREET_ADDRESS" -> "ADDRESS"
          [] l = "NAME_STUDENT" -> "PERSON" [] l = "NAME_TEACHER" -> "PERSON"
          [] l = "LOCATION" -> "LOC" [] l = "DATE_OB" -> "DATE"]

\* label_map = {} (the default None)
EmptyLabelMap == [l \in {} |-> l]

EvalText == <<"a", "b", "c">>

EvalSpans == {<<0, 2>>, <<1, 3>>, <<2, 3>>}

Slice_inclusive(text, start, end) == SubSeq(text, start + 1, end + 1)

\* element.text[start:end]
Slice(text, start, end) == SubSeq(text, start + 1, end)

EvalPreds ==
    {[label |-> l, text |-> Slice(EvalText, sp[1], sp[2]),
      start_char |-> sp[1], end_char |-> sp[2]] :
        l \in {"PERSON", "PHONE_NUM"}, sp \in EvalSpans}

EvalGts ==
    {[label |-> l, text |-> Slice(EvalText, sp[1], sp[2]),
      start_char |-> sp[1], end_char |-> sp[2]] :
        l \in {"NAME_STUDENT", "PHONE_NUM"}, sp \in EvalSpans}
    \cup
    {[label |-> "NAME_STUDENT", text |-> <<"z", "z">>,
      start_char |-> 0, end_char |-> 2]}

SecondElement ==
    [id |-> "elem_1",
     entities |-> <<[label |-> "PERSON", text |-> <<"a", "b">>,
                     start_char |-> 0, end_char |-> 2]>>]

SecondGroundTruth ==
    <<[label |-> "NAME_STUDENT", text |-> <<"a", "b">>,
       start_char |-> 0, end_char |-> 2],
      [label |-> "PHONE_NUM", text |-> <<"c">>,
       start_char |-> 2, end_char |-> 3]>>

\* a dict element id -> list that holds no empty list
GtDict(first, second) ==
    [id \in (IF first = <<>> THEN {} ELSE {"elem_0"})
            \cup (IF second = <<>> THEN {} ELSE {"elem_1"}) |->
        IF id = "elem_0" THEN first ELSE second]

AliceText == <<"A", "l", "i", "c", "e">>

AddressText == <<"1", "2", " ", "E", "l", "m", " ", "S", "t", ".">>

ExampleExact ==
    [elements |-> <<[id |-> "elem_0",
                     entities |-> <<[label |-> "PERSON", text |-> AliceText,
                                     start_char |-> 0, end_char |-> 5]>>]>>,
     gt |-> GtDict(<<[label |-> "PERSON", text |-> AliceText,
                      start_char |-> 0, end_char |-> 5]>>, <<>>)]

ExampleOverlap ==
    [elements |-> <<[id |-> "elem_0",
                     entities |-> <<[label |-> "ADDRESS", text |-> AddressText,
                                     start_char |-> 0, end_char |-> 10]>>]>>,
     gt |-> GtDict(<<[label |-> "ADDRESS", text |-> Slice(AddressText, 2, 9),
                      start_char |-> 2, end_char |-> 9]>>, <<>>)]

Strategies ==
    {[strategy |-> "exact", threshold |-> [num |-> 1, den |-> 2]],
     [strategy |-> "overlap", threshold |-> [num |-> 1, den |-> 2]],
     [strategy |-> "overlap", threshold |-> [num |-> 9, den |-> 10]]}

EnumeratedInputs ==
    {[elements |-> <<[id |-> "elem_0", entities |-> preds], SecondElement>>,
      gt |-> GtDict(gts, SecondGroundTruth)] :
        <<preds, gts>> \in
            {pg \in SeqsUpTo(EvalPreds, MaxEvalEntries)
                      \X SeqsUpTo(EvalGts, MaxEvalEntries) :
                Len(pg[1]) + Len(pg[2]) <= MaxEvalEntries}}

ZeroCounts == [l \in EvalLabels |-> 0]

NoMatches == [l \in EvalLabels |-> {}]

EmptyResults == [per_class |-> <<>>, overall |-> MetricsOf(0, 0, 0)]

InitEval ==
    /\ \/ /\ \E input \in EnumeratedInputs :
               /\ doc_elements = input.elements
               /\ ground_truth = input.gt
          /\ label_map = KAGGLE_TO_DOCUGUARD_LABEL_MAP
       \/ /\ \E input \in {ExampleExact, ExampleOverlap} :
               /\ doc_elements = input.elements
               /\ ground_truth = input.gt
          /\ label_map = EmptyLabelMap
    /\ \E s \in Strategies :
          /\ match_strategy = s.strategy
          /\ overlap_threshold = s.threshold
    /\ true_positives = ZeroCounts
    /\ false_positives = ZeroCounts
    /\ false_negatives = ZeroCounts
    /\ unique_labels = {}
    /\ pred_matches = NoMatches
    /\ gt_matches = NoMatches
    /\ e_idx = 1
    /\ q_idx = 0
    /\ results = EmptyResults
    /\ ev_done = FALSE

IdleEval ==
    /\ doc_elements = <<>>
    /\ ground_truth = <<>>
    /\ label_map = EmptyLabelMap
    /\ match_strategy = "exact"
    /\ overlap_threshold = [num |-> 1, den |-> 2]
    /\ true_positives = ZeroCounts
    /\ false_positives = ZeroCounts
    /\ false_negatives = ZeroCounts
    /\ unique_labels = {}
    /\ pred_matches = NoMatches
    /\ gt_matches = NoMatches
    /\ e_idx = 1
    /\ q_idx = 0
    /\ results = EmptyResults
    /\ ev_done = TRUE

(***************************************************************************)
(* convert_bio_to_offset_entities (utils/data_loader.py).  TokenStep is    *)
(* one pass of the loop over zip(tokens, labels, trailing_whitespace),     *)
(* FinishConversion the code after the loop.  Offsets are 0-based as in    *)
(* the code; a tag is a string, i.e. a sequence of characters.             *)
(***************************************************************************)
\* None, as the value of current_entity_label and entity_type
NoneLabel == <<"None">>

\* str.isspace() of one character
IsSpace(c) == c \in {" ", "\n", "\t"}

\* lines 49-51: while search_start < len(full_text) and ...isspace()
RECURSIVE SkipWhitespace(_, _)
SkipWhitespace(text, search_start) ==
    IF search_start < Len(text) /\ IsSpace(text[search_start + 1])
    THEN SkipWhitespace(text, search_start + 1)
    ELSE search_start

StrIndex_from_start(text, token, search_start) ==
    LET hits == {k \in 0..(Len(text) - Len(token)) :
                    SubSeq(text, k + 1, k + Len(token)) = token}
    IN  IF hits = {} THEN -1 ELSE CHOOSE k \in hits : \A h \in hits : k <= h

\* full_text.index(token, search_start); -1 stands for the ValueError
StrIndex(text, token, search_start) ==
    LET hits == {k \in search_start..(Len(text) - Len(token)) :
                    SubSeq(text, k + 1, k + Len(token)) = token}
    IN  IF hits = {} THEN -1 ELSE CHOOSE k \in hits : \A h \in hits : k <= h

\* bio_label.startswith(prefix)
StartsWith(bio_label, prefix) ==
    /\ Len(bio_label) >= Len(prefix)
    /\ SubSeq(bio_label, 1, Len(prefix)) = prefix

EntityType_whole_tag(bio_label) == bio_label

\* line 62: bio_label[2:] if len(bio_label) > 1 else None
EntityType(bio_label) ==
    IF Len(bio_label) > 1 THEN SubSeq(bio_label, 3, Len(bio_label))
    ELSE NoneLabel

\* the dictionary appended at lines 66-72, 82-88, 95-101 and 109-115
ClosedEntity(text, label, start_char, end_char) ==
    [text |-> Slice(text, start_char, end_char),
     label |-> label,
     start_char |-> start_char,
     end_char |-> end_char]

ExtendsOpenEntity_any_label(cur_tokens, cur_label, bio_label) == cur_tokens # <<>>

ExtendsOpenEntity_whole_tag(cur_tokens, cur_label, bio_label) ==
    cur_tokens # <<>> /\ bio_label = cur_label

\* line 78: current_entity_tokens and entity_type == current_entity_label
ExtendsOpenEntity(cur_tokens, cur_label, bio_label) ==
    cur_tokens # <<>> /\ EntityType(bio_label) = cur_label

\* the list after the 'if current_entity_tokens: entities.append(...)'
WithOpenClosed ==
    IF current_entity_tokens # <<>>
    THEN Append(entities,
                ClosedEntity(full_text, current_entity_label,
                             current_entity_start_char,
                             previous_token_end_char))
    ELSE entities

\* lines 47-106, one token
TokenStep ==
    /\ bio_pc = "loop"
    /\ tok_i <= Len(tokens)
    /\ LET token == tokens[tok_i]
           bio_label == labels[tok_i]
           search_start == SkipWhitespace(full_text, current_char_idx)
           start_char == StrIndex(full_text, token, search_start)
           end_char == start_char + Len(token)
       IN  IF start_char = -1
           THEN \* lines 56-58: return []
                /\ bio_pc' = "aborted"
                /\ bio_ret' = <<>>
                /\ UNCHANGED <<entities, current_entity_tokens,
                               current_entity_label, current_entity_start_char,
                               current_char_idx, previous_token_end_char, tok_i>>
           ELSE /\ current_char_idx' = end_char
                /\ IF StartsWith(bio_label, <<"B", "-">>)
                   THEN /\ entities' = WithOpenClosed
                        /\ current_entity_tokens' = <<token>>
                        /\ current_entity_label' = EntityType(bio_label)
                        /\ current_entity_start_char' = start_char
                   ELSE IF StartsWith(bio_label, <<"I", "-">>)
                   THEN IF ExtendsOpenEntity(current_entity_tokens,
                                             current_entity_label, bio_label)
                        THEN /\ current_entity_tokens' =
                                    Append(current_entity_tokens, token)
                             /\ UNCHANGED <<entities, current_entity_label,
                                            current_entity_start_char>>
                        ELSE /\ entities' = WithOpenClosed
                             /\ current_entity_tokens' = <<>>
                             /\ current_entity_label' = NoneLabel
                             /\ current_entity_start_char' = -1
                   ELSE /\ entities' = WithOpenClosed
                        /\ current_entity_tokens' = <<>>
                        /\ current_entity_label' = NoneLabel
                        /\ current_entity_start_char' = -1
                /\ previous_token_end_char' = end_char
                /\ tok_i' = tok_i + 1
                /\ UNCHANGED <<bio_pc, bio_ret>>
    /\ UNCHANGED <<tokens, labels, trailing_whitespace, full_text>>
    /\ UNCHANGED <<luhnVars, resVars, evVars, runVars, clsVars, detVars, parseVars>>

\* lines 108-117
FinishConversion ==
    /\ bio_pc = "loop"
    /\ tok_i > Len(tokens)
    /\ entities' = WithOpenClosed
    /\ bio_ret' = WithOpenClosed
    /\ bio_pc' = "returned"
    /\ UNCHANGED <<tokens, labels, trailing_whitespace, full_text,
                   current_entity_tokens, current_entity_label,
                   current_entity_start_char, current_char_idx,
                   previous_token_end_char, tok_i>>
    /\ UNCHANGED <<luhnVars, resVars, evVars, runVars, clsVars, detVars, parseVars>>

(***************************************************************************)
(* The inputs of convert_bio_to_offset_entities: up to MaxTokens tokens    *)
(* over a small alphabet against short texts, with every tagging, and the  *)
(* tokens John, Doe, works against 'John Doe works'.                       *)
(***************************************************************************)
PERSON == <<"P", "E", "R", "S", "O", "N">>

EMAIL == <<"E", "M", "A", "I", "L">>

BTag(label) == <<"B", "-">> \o label

ITag(label) == <<"I", "-">> \o label

OTag == <<"O">>

BioTags == {BTag(PERSON), ITag(PERSON), BTag(EMAIL), ITag(EMAIL), OTag}

BioTokens == {<<"a">>, <<"a", "b">>, <<" ">>}

BioTexts ==
    {<<"a", " ", "a", "b", " ", "a", " ", "a", "b">>,
     <<"a", "b", " ", " ", "a", " ", "a">>,
     <<"a", "a", "b">>}

JohnDoeTokens ==
    << <<"J", "o", "h", "n">>, <<"D", "o", "e">>, <<"w", "o", "r", "k", "s">> >>

JohnDoeText ==
    <<"J", "o", "h", "n", " ", "D", "o", "e", " ", "w", "o", "r", "k", "s">>

JohnDoeTags == <<BTag(PERSON), ITag(PERSON), OTag>>

BioInputs ==
    {[tokens |-> tk, labels |-> tg, full_text |-> tx] :
        <<tk, tg, tx>> \in
            {x \in SeqsUpTo(BioTokens, MaxTokens) \X SeqsUpTo(BioTags, MaxTokens)
                     \X BioTexts : Len(x[1]) = Len(x[2])}}
    \cup
    {[tokens |-> JohnDoeTokens, labels |-> tg, full_text |-> JohnDoeText] :
        tg \in {JohnDoeTags, <<BTag(PERSON), ITag(PERSON), ITag(PERSON)>>}}

InitBio ==
    /\ \E inp \in BioInputs :
          /\ tokens = inp.tokens
          /\ labels = inp.labels
          /\ full_text = inp.full_text
          /\ \E ws \in BOOLEAN :
                trailing_whitespace = [k \in 1..Len(inp.tokens) |-> ws]
    /\ entities = <<>>
    /\ current_entity_tokens = <<>>
    /\ current_entity_label = NoneLabel
    /\ current_entity_start_char = -1
    /\ current_char_idx = 0
    /\ previous_token_end_char = 0
    /\ tok_i = 1
    /\ bio_pc = "loop"
    /\ bio_ret = <<>>

IdleBio ==
    /\ tokens = <<>>
    /\ labels = <<>>
    /\ trailing_whitespace = <<>>
    /\ full_text = <<>>
    /\ entities = <<>>
    /\ current_entity_tokens = <<>>
    /\ current_entity_label = NoneLabel
    /\ current_entity_start_char = -1
    /\ current_char_idx = 0
    /\ previous_token_end_char = 0
    /\ tok_i = 1
    /\ bio_pc = "idle"
    /\ bio_ret = <<>>

(***************************************************************************)
(* segment_document (document/document_parser.py 50-76) and the string     *)
(* methods it uses, as operators on sequences of characters.               *)
(***************************************************************************)
UpperChars == {"A", "B", "J", "D"}

LowerChars == {"a", "b", "c", "e", "h", "k", "n", "o", "r", "s", "w", "z"}

IsCased(c) == c \in UpperChars \cup LowerChars

\* str.isupper(): a cased character, and no lower-case one
IsUpperStr(s) ==
    /\ \E k \in 1..Len(s) : s[k] \in UpperChars
    /\ \A k \in 1..Len(s) : s[k] \notin LowerChars

\* str.istitle(): upper case only after an uncased character, lower case
\* only after a cased one, and a cased character
IsTitleStr(s) ==
    /\ \E k \in 1..Len(s) : IsCased(s[k])
    /\ \A k \in 1..Len(s) :
          /\ s[k] \in UpperChars => (k = 1 \/ ~IsCased(s[k - 1]))
          /\ s[k] \in LowerChars => (k > 1 /\ IsCased(s[k - 1]))

\* lines 15-16
is_title_case(line) == IsTitleStr(line) /\ ~IsUpperStr(line)

RECURSIVE LStrip(_)
LStrip(s) == IF s # <<>> /\ IsSpace(Head(s)) THEN LStrip(Tail(s)) ELSE s

RECURSIVE RStrip(_)
RStrip(s) ==
    IF s # <<>> /\ IsSpace(s[Len(s)]) THEN RStrip(SubSeq(s, 1, Len(s) - 1))
    ELSE s

\* str.strip()
Strip(s) == LStrip(RStrip(s))

\* str.split(sep): the pieces between the occurrences of sep, left to right
RECURSIVE Split(_, _)
Split(s, sep) ==
    LET k == StrIndex(s, sep, 0)
    IN  IF k = -1 THEN <<s>>
        ELSE <<SubSeq(s, 1, k)>> \o Split(SubSeq(s, k + Len(sep) + 1, Len(s)), sep)

\* sep.join(parts)
RECURSIVE Join(_, _)
Join(parts, sep) ==
    IF parts = <<>> THEN <<>>
    ELSE IF Len(parts) = 1 THEN parts[1]
    ELSE parts[1] \o sep \o Join(Tail(parts), sep)

\* [line.strip() for line in lines if line.strip()]
RECURSIVE StrippedNonEmpty(_)
StrippedNonEmpty(lines) ==
    IF lines = <<>> THEN <<>>
    ELSE IF Strip(Head(lines)) = <<>> THEN StrippedNonEmpty(Tail(lines))
    ELSE <<Strip(Head(lines))>> \o StrippedNonEmpty(Tail(lines))

max_heading_len == 150

max_lines == 2

\* lines 18-34
is_likely_heading(text) ==
    LET lines == Split(text, <<"\n">>)
    IN  /\ 0 < Len(lines) /\ Len(lines) <= max_lines
        /\ Len(text) <= max_heading_len
        /\ \E k \in 1..Len(text) : IsCased(text[k])
        /\ IsUpperStr(lines[1]) \/ is_title_case(lines[1])

\* f"elem_{current_id}"
ElemId(current_id) ==
    CASE current_id = 0 -> "elem_0"
      [] current_id = 1 -> "elem_1"
      [] current_id = 2 -> "elem_2"
      [] OTHER -> "elem_n"

RECURSIVE SegmentParagraphs_gaps(_, _)
SegmentParagraphs_gaps(raw_paragraphs, current_id) ==
    IF raw_paragraphs = <<>> THEN <<>>
    ELSE LET lines == StrippedNonEmpty(Split(Head(raw_paragraphs), <<"\n">>))
             cleaned_para == Join(lines, <<"\n">>)
         IN  IF cleaned_para # <<>>
             THEN <<[id |-> ElemId(current_id),
                     text |-> cleaned_para,
                     type |-> IF is_likely_heading(cleaned_para)
                              THEN "heading" ELSE "paragraph",
                     entities |-> <<>>]>>
                  \o SegmentParagraphs_gaps(Tail(raw_paragraphs), current_id + 1)
             ELSE SegmentParagraphs_gaps(Tail(raw_paragraphs), current_id + 1)

\* lines 55-75: the loop over raw_paragraphs
RECURSIVE SegmentParagraphs(_, _)
SegmentParagraphs(raw_paragraphs, current_id) ==
    IF raw_paragraphs = <<>> THEN <<>>
    ELSE LET lines == StrippedNonEmpty(Split(Head(raw_paragraphs), <<"\n">>))
             cleaned_para == Join(lines, <<"\n">>)
         IN  IF cleaned_para # <<>>
             THEN <<[id |-> ElemId(current_id),
                     text |-> cleaned_para,
                     type |-> IF is_likely_heading(cleaned_para)
                              THEN "heading" ELSE "paragraph",
                     entities |-> <<>>]>>
                  \o SegmentParagraphs(Tail(raw_paragraphs), current_id + 1)
             ELSE SegmentParagraphs(Tail(raw_paragraphs), current_id)

\* lines 50-76
segment_document(text) ==
    SegmentParagraphs(Split(Strip(text), <<"\n", "\n">>), 0)

(***************************************************************************)
(* run_kaggle_evaluation (scripts/run_evaluation.py 46-141) with           *)
(* load_kaggle_pii_dataset (utils/data_loader.py 5-33).  LoadRow is one    *)
(* pass of the loader's loop, StartRun lines 48-61, ProcessDocument lines  *)
(* 64-78 up to the entry of the conversion, MapGroundTruth lines 81-109 up *)
(* to the entry of the evaluation, AggregateDocument lines 112-120 and     *)
(* FinalMetrics lines 122-141; the conversion and the evaluation run as    *)
(* the actions above.  A parsed CSV field is [ok, value]: ok is false      *)
(* when ast.literal_eval raises or gives a value without a length.         *)
(***************************************************************************)
FracSub(x, y) == Frac(x[1] * y[2] - y[1] * x[2], x[2] * y[2])

FracOfInt(n) == <<n, 1>>

\* lines 16-19: the three fields parsed
RowParses(row) ==
    row.tokens.ok /\ row.trailing_whitespace.ok /\ row.labels.ok

RowLengthsEqual_always(row) == TRUE

\* line 20
RowLengthsEqual(row) ==
    /\ Len(row.tokens.value) = Len(row.labels.value)
    /\ Len(row.labels.value) = Len(row.trailing_whitespace.value)

\* the row after lines 17-19
ParsedRow(row) ==
    [document |-> row.document, text |-> row.text,
     tokens |-> row.tokens.value,
     trailing_whitespace |-> row.trailing_whitespace.value,
     labels |-> row.labels.value]

\* data_loader.py 15-25, one row
LoadRow ==
    /\ run_pc = "load"
    /\ row_i <= Len(csv_rows)
    /\ LET row == csv_rows[row_i]
       IN  dataset' = IF RowParses(row) /\ RowLengthsEqual(row)
                      THEN Append(dataset, ParsedRow(row))
                      ELSE dataset
    /\ row_i' = row_i + 1
    /\ UNCHANGED <<csv_rows, doc_i, doc, agg_tp, agg_fp, agg_fn, all_labels,
                   final_metrics, run_pc>>
    /\ UNCHANGED <<luhnVars, resVars, evVars, bioVars, clsVars, detVars, parseVars>>

\* run_evaluation.py 48-61: the loader has returned
StartRun ==
    /\ run_pc = "load"
    /\ row_i > Len(csv_rows)
    /\ run_pc' = IF dataset = <<>> THEN "done" ELSE "docs"
    /\ UNCHANGED <<csv_rows, row_i, dataset, doc_i, doc, agg_tp, agg_fp, agg_fn,
                   all_labels, final_metrics>>
    /\ UNCHANGED <<luhnVars, resVars, evVars, bioVars, clsVars, detVars, parseVars>>

\* a prediction as the evaluation reads it
Prediction(text, label, start_char, end_char) ==
    [label |-> label, text |-> Slice(text, start_char, end_char),
     start_char |-> start_char, end_char |-> end_char]

\* the lists recognizer.detect_entities can leave on an element: resolved
\* lists (sorted, disjoint) of entities inside the text
DetectChoices(text) ==
    {<<>>}
    \cup {<<Prediction(text, l, 0, 1)>> : l \in {"PERSON", "EMAIL"}}
    \cup (IF Len(text) >= 4
          THEN {<<Prediction(text, "PERSON", 0, 1),
                  Prediction(text, "PERSON", 2, 4)>>,
                <<Prediction(text, "PERSON", 0, 1),
                  Prediction(text, "PERSON", 1, 2)>>}
          ELSE {})

\* lines 71-75: segment_document, then detect_entities on every element
RECURSIVE DetectAll(_)
DetectAll(elems) ==
    IF elems = <<>> THEN {<<>>}
    ELSE {<<[Head(elems) EXCEPT !.entities = c]>> \o rest :
              c \in DetectChoices(Head(elems).text),
              rest \in DetectAll(Tail(elems))}

\* lines 64-78, up to the entry of convert_bio_to_offset_entities (40-45)
ProcessDocument ==
    /\ run_pc = "docs"
    /\ doc_i <= Len(dataset)
    /\ LET entry == dataset[doc_i]
       IN  /\ doc' \in DetectAll(segment_document(entry.text))
           /\ tokens' = entry.tokens
           /\ labels' = entry.labels
           /\ trailing_whitespace' = entry.trailing_whitespace
           /\ full_text' = entry.text
    /\ entities' = <<>>
    /\ current_entity_tokens' = <<>>
    /\ current_entity_label' = NoneLabel
    /\ current_entity_start_char' = -1
    /\ current_char_idx' = 0
    /\ previous_token_end_char' = 0
    /\ tok_i' = 1
    /\ bio_pc' = "loop"
    /\ bio_ret' = <<>>
    /\ run_pc' = "convert"
    /\ UNCHANGED <<csv_rows, row_i, dataset, doc_i, agg_tp, agg_fp, agg_fn,
                   all_labels, final_metrics>>
    /\ UNCHANGED <<luhnVars, resVars, evVars, clsVars, detVars, parseVars>>

\* the label of a converted entity, as the string the evaluation compares
LabelString(label) ==
    CASE label = PERSON -> "PERSON"
      [] label = EMAIL -> "EMAIL"
      [] OTHER -> "UNKNOWN"

\* lines 91-101: the entities of the document that lie in one element,
\* with offsets relative to the element
RECURSIVE MapToElement(_, _, _)
MapToElement(elem, elem_start, gts) ==
    IF gts = <<>> THEN <<>>
    ELSE LET gt_entity == Head(gts)
             elem_end == elem_start + Len(elem.text)
             relative_start == gt_entity.start_char - elem_start
             relative_end == gt_entity.end_char - elem_start
             rest == MapToElement(elem, elem_start, Tail(gts))
         IN  IF /\ elem_start <= gt_entity.start_char
                /\ gt_entity.start_char < elem_end
                /\ gt_entity.end_char <= elem_end
                /\ Slice(elem.text, relative_start, relative_end)
                     = gt_entity.text
             THEN <<[text |-> gt_entity.text,
                     label |-> LabelString(gt_entity.label),
                     start_char |-> relative_start,
                     end_char |-> relative_end]>> \o rest
             ELSE rest

\* lines 82-101, one element; [] when the element text is not found
GroundTruthOf(elem, document_text, gts) ==
    LET elem_start == StrIndex(document_text, elem.text, 0)
    IN  IF elem_start = -1 THEN <<>>
        ELSE MapToElement(elem, elem_start, gts)

\* ground_truth_for_eval: a key for each element that got an entry
GroundTruthForEval(elems, document_text, gts) ==
    LET ids == {elems[k].id : k \in
                   {j \in 1..Len(elems) :
                       GroundTruthOf(elems[j], document_text, gts) # <<>>}}
    IN  [id \in ids |->
            LET k == CHOOSE j \in 1..Len(elems) : elems[j].id = id
            IN  GroundTruthOf(elems[k], document_text, gts)]

\* lines 81-109, up to the entry of evaluate_entity_detection (62-69)
MapGroundTruth ==
    /\ run_pc = "convert"
    /\ bio_pc \in {"returned", "aborted"}
    /\ ground_truth' = GroundTruthForEval(doc, full_text, bio_ret)
    /\ doc_elements' = doc
    /\ label_map' = KAGGLE_TO_DOCUGUARD_LABEL_MAP
    /\ match_strategy' = "overlap"
    /\ overlap_threshold' = [num |-> 1, den |-> 2]
    /\ true_positives' = ZeroCounts
    /\ false_positives' = ZeroCounts
    /\ false_negatives' = ZeroCounts
    /\ unique_labels' = {}
    /\ pred_matches' = NoMatches
    /\ gt_matches' = NoMatches
    /\ e_idx' = 1
    /\ q_idx' = 0
    /\ results' = EmptyResults
    /\ ev_done' = FALSE
    /\ run_pc' = "evaluate"
    /\ UNCHANGED <<csv_rows, row_i, dataset, doc_i, doc, agg_tp, agg_fp, agg_fn,
                   all_labels, final_metrics>>
    /\ UNCHANGED <<luhnVars, resVars, bioVars, clsVars, detVars, parseVars>>

BackDerived_no_precision(metrics) ==
    LET tp == FracMul(FracOfInt(metrics.support), metrics.recall)
    IN  [tp |-> tp,
         fp |-> FracMul(FracOfInt(metrics.support),
                        FracSub(<<1, 1>>, metrics.recall)),
         fn |-> FracSub(FracOfInt(metrics.support), tp)]

BackDerived_support_as_tp(metrics) ==
    LET tp == FracOfInt(metrics.support)
    IN  [tp |-> tp,
         fp |-> IF FracPositive(metrics.precision)
                THEN FracSub(FracDiv(tp, metrics.precision), tp)
                ELSE FracMul(FracOfInt(metrics.support),
                             FracSub(<<1, 1>>, metrics.recall)),
         fn |-> FracSub(FracOfInt(metrics.support), tp)]

\* lines 115-117: the counts derived from one label's metrics
BackDerived(metrics) ==
    LET tp == FracMul(FracOfInt(metrics.support), metrics.recall)
    IN  [tp |-> tp,
         fp |-> IF FracPositive(metrics.precision)
                THEN FracSub(FracDiv(tp, metrics.precision), tp)
                ELSE FracMul(FracOfInt(metrics.support),
                             FracSub(<<1, 1>>, metrics.recall)),
         fn |-> FracSub(FracOfInt(metrics.support), tp)]

\* lines 112-120
AggregateDocument ==
    /\ run_pc = "evaluate"
    /\ ev_done
    /\ all_labels' = all_labels \cup DOMAIN results.per_class
    /\ agg_tp' = [l \in EvalLabels |->
                    IF l \in DOMAIN results.per_class
                    THEN FracAdd(agg_tp[l], BackDerived(results.per_class[l]).tp)
                    ELSE agg_tp[l]]
    /\ agg_fp' = [l \in EvalLabels |->
                    IF l \in DOMAIN results.per_class
                    THEN FracAdd(agg_fp[l], BackDerived(results.per_class[l]).fp)
                    ELSE agg_fp[l]]
    /\ agg_fn' = [l \in EvalLabels |->
                    IF l \in DOMAIN results.per_class
                    THEN FracAdd(agg_fn[l], BackDerived(results.per_class[l]).fn)
                    ELSE agg_fn[l]]
    /\ doc_i' = doc_i + 1
    /\ run_pc' = "docs"
    /\ UNCHANGED <<csv_rows, row_i, dataset, doc, final_metrics>>
    /\ UNCHANGED <<luhnVars, resVars, evVars, bioVars, clsVars, detVars, parseVars>>

\* sum(agg.values())
RECURSIVE FracSum(_, _)
FracSum(agg, S) ==
    IF S = {} THEN FracZero
    ELSE LET l == CHOOSE x \in S : TRUE
         IN  FracAdd(agg[l], FracSum(agg, S \ {l}))

\* lines 126-129 and 134-137
AggregatedMetricsOf(tp, fp, fn) ==
    LET p == IF FracPositive(FracAdd(tp, fp))
             THEN FracDiv(tp, FracAdd(tp, fp)) ELSE FracZero
        r == IF FracPositive(FracAdd(tp, fn))
             THEN FracDiv(tp, FracAdd(tp, fn)) ELSE FracZero
        f1 == IF FracPositive(FracAdd(p, r))
              THEN FracDiv(FracMul(<<2, 1>>, FracMul(p, r)), FracAdd(p, r))
              ELSE FracZero
    IN  [precision |-> p, recall |-> r, f1 |-> f1, support |-> FracAdd(tp, fn)]

\* lines 122-141
FinalMetrics ==
    /\ run_pc = "docs"
    /\ doc_i > Len(dataset)
    /\ final_metrics' =
          [per_class |->
              [l \in all_labels |->
                  AggregatedMetricsOf(agg_tp[l], agg_fp[l], agg_fn[l])],
           overall |-> AggregatedMetricsOf(FracSum(agg_tp, EvalLabels),
                                           FracSum(agg_fp, EvalLabels),
                                           FracSum(agg_fn, EvalLabels))]
    /\ run_pc' = "done"
    /\ UNCHANGED <<csv_rows, row_i, dataset, doc_i, doc, agg_tp, agg_fp, agg_fn,
                   all_labels>>
    /\ UNCHANGED <<luhnVars, resVars, evVars, bioVars, clsVars, detVars, parseVars>>

(***************************************************************************)
(* The inputs of run_kaggle_evaluation: up to MaxRows rows, among them a   *)
(* document whose tokens align, one without entities, one with a token     *)
(* that is not found after an entity was closed, one of two paragraphs,    *)
(* one with two names, a row whose lists differ in length and a row with   *)
(* an unparsable field.                                                    *)
(***************************************************************************)
Parsed(value) == [ok |-> TRUE, value |-> value]

Unparsable == [ok |-> FALSE, value |-> <<>>]

RunText == <<"a", " ", "a", "b">>

RunTextTwoParagraphs == <<"a", "\n", "\n", "a", "b">>

CsvRow(document_id, text, toks, tags) ==
    [document |-> document_id, text |-> text, tokens |-> toks, labels |-> tags,
     trailing_whitespace |->
        IF toks.ok THEN Parsed([k \in 1..Len(toks.value) |-> TRUE])
        ELSE Parsed(<<>>)]

RunRows ==
    {CsvRow("aligned", RunText, Parsed(<< <<"a">>, <<"a", "b">> >>),
            Parsed(<<BTag(PERSON), OTag>>)),
     CsvRow("no_entities", RunText, Parsed(<< <<"a">>, <<"a", "b">> >>),
            Parsed(<<OTag, OTag>>)),
     CsvRow("misaligned", RunText,
            Parsed(<< <<"a">>, <<"a", "b">>, <<"a", "b">> >>),
            Parsed(<<BTag(PERSON), OTag, OTag>>)),
     CsvRow("two_paragraphs", RunTextTwoParagraphs,
            Parsed(<< <<"a">>, <<"a", "b">> >>),
            Parsed(<<BTag(EMAIL), BTag(PERSON)>>)),
     CsvRow("two_names", RunText, Parsed(<< <<"a">>, <<"a", "b">> >>),
            Parsed(<<BTag(PERSON), BTag(PERSON)>>)),
     CsvRow("mismatched", RunText, Parsed(<< <<"a">> >>),
            Parsed(<<BTag(PERSON), OTag>>)),
     CsvRow("unparsable", RunText, Unparsable, Parsed(<<OTag>>))}

ZeroFracs == [l \in EvalLabels |-> FracZero]

NoFinalMetrics ==
    [per_class |-> <<>>,
     overall |-> AggregatedMetricsOf(FracZero, FracZero, FracZero)]

InitRun ==
    /\ csv_rows \in SeqsUpTo(RunRows, MaxRows)
    /\ row_i = 1
    /\ dataset = <<>>
    /\ doc_i = 1
    /\ doc = <<>>
    /\ agg_tp = ZeroFracs
    /\ agg_fp = ZeroFracs
    /\ agg_fn = ZeroFracs
    /\ all_labels = {}
    /\ final_metrics = NoFinalMetrics
    /\ run_pc = "load"

IdleRun ==
    /\ csv_rows = <<>>
    /\ row_i = 1
    /\ dataset = <<>>
    /\ doc_i = 1
    /\ doc = <<>>
    /\ agg_tp = ZeroFracs
    /\ agg_fp = ZeroFracs
    /\ agg_fn = ZeroFracs
    /\ all_labels = {}
    /\ final_metrics = NoFinalMetrics
    /\ run_pc = "idle"

(***************************************************************************)
(* assign_base_risk and classify_entity_sensitivity called on their own:   *)
(* AssignBaseRisk and ClassifySensitivity are one call each, on labels in  *)
(* every case and on every kind of context.                                *)
(***************************************************************************)
AssignBaseRisk ==
    /\ risk_ret = -1
    /\ risk_ret' = assign_base_risk(risk_arg)
    /\ UNCHANGED <<risk_arg, sens_label, sens_context, sens_ret>>
    /\ UNCHANGED <<luhnVars, resVars, evVars, bioVars, runVars, detVars, parseVars>>

ClassifySensitivity ==
    /\ sens_ret = "pending"
    /\ sens_ret' = classify_entity_sensitivity(sens_label, sens_context)
    /\ UNCHANGED <<risk_arg, risk_ret, sens_label, sens_context>>
    /\ UNCHANGED <<luhnVars, resVars, evVars, bioVars, runVars, detVars, parseVars>>

ClsLabels == DOMAIN LabelChars

ClsContexts ==
    {NoContext} \cup
    {[id |-> "e1", text |-> <<"A", "b">>, type |-> t] :
        t \in {"heading", "paragraph"}}

InitCls ==
    /\ risk_arg \in ClsLabels
    /\ risk_ret = -1
    /\ sens_label \in {"EMAIL", "PHONE", "SSN", "CREDIT_CARD", "PERSON", "ORG",
                       "DATE", "ADDRESS", "Email", "ssn", "PHONE_NUM", ""}
    /\ sens_context \in ClsContexts
    /\ sens_ret = "pending"

IdleCls ==
    /\ risk_arg = ""
    /\ risk_ret = 0
    /\ sens_label = ""
    /\ sens_context = NoContext
    /\ sens_ret = "idle"

(***************************************************************************)
(* EntityRecognizer.detect_entities (entity/entity_recognizer.py 132-140): *)
(* a loop over document.elements that calls detect_entities_in_element on  *)
(* each element and assigns the returned list to element.entities.  The    *)
(* two detectors are functions of the element's text: the patterns are     *)
(* fixed regular expressions and self.nlp is the model loaded once in      *)
(* __init__ (36-46).                                                       *)
(***************************************************************************)
\* line 86: covered_spans = set(), whatever an earlier call left behind
FreshSpans_leaking(previous) == previous

FreshSpans(previous) == {}

\* line 138: element.entities = entities
Assigned_merged(old, new) == old \o new

Assigned(old, new) == new

\* the fields of a DocumentElement that detect_entities_in_element reads
ElementOf(e) == [id |-> e.id, text |-> e.text, type |-> e.type]

\* lines 132-135: the call, total_entities = 0 and the start of the loop
DetectEntities ==
    /\ detect_pc \in {"idle", "done"}
    /\ detect_calls < MaxRuns
    /\ elem_idx' = 1
    /\ total_entities' = 0
    /\ detect_pc' = "loop"
    /\ UNCHANGED <<document, detect_calls, pii_matches, nlp>>
    /\ UNCHANGED <<luhnVars, resVars, evVars, bioVars, runVars, clsVars, parseVars>>

\* lines 136-137 and 81-86: the next element is passed to
\* detect_entities_in_element, which runs both detectors on its text and
\* starts from an empty list and an empty set
EnterElement ==
    /\ detect_pc = "loop"
    /\ elem_idx <= Len(document)
    /\ element' = ElementOf(document[elem_idx])
    /\ pattern_entities' = pii_matches[document[elem_idx].text]
    /\ ner_entities' = nlp[document[elem_idx].text]
    /\ combined_entities' = <<>>
    /\ covered_spans' = FreshSpans(covered_spans)
    /\ p_idx' = 1
    /\ n_idx' = 1
    /\ returned' = FALSE
    /\ detect_pc' = "element"
    /\ UNCHANGED <<document, elem_idx, total_entities, detect_calls,
                   pii_matches, nlp>>
    /\ UNCHANGED <<luhnVars, evVars, bioVars, runVars, clsVars, parseVars>>

\* lines 138-139: element.entities = entities; total_entities += len(entities)
AssignEntities ==
    /\ detect_pc = "element"
    /\ returned
    /\ document' = [document EXCEPT
                       ![elem_idx].entities = Assigned(@, combined_entities)]
    /\ total_entities' = total_entities + Len(combined_entities)
    /\ elem_idx' = elem_idx + 1
    /\ detect_pc' = "loop"
    /\ UNCHANGED <<detect_calls, pii_matches, nlp>>
    /\ UNCHANGED <<luhnVars, resVars, evVars, bioVars, runVars, clsVars, parseVars>>

\* line 140: the loop is over, detect_entities returns None
FinishDetect ==
    /\ detect_pc = "loop"
    /\ elem_idx > Len(document)
    /\ detect_calls' = detect_calls + 1
    /\ detect_pc' = "done"
    /\ UNCHANGED <<document, elem_idx, total_entities, pii_matches, nlp>>
    /\ UNCHANGED <<luhnVars, resVars, evVars, bioVars, runVars, clsVars, parseVars>>

(***************************************************************************)
(* The inputs of detect_entities: a document of elements built by a caller *)
(* (tests/test_entity_recognition.py 94-99 builds them by hand, so id,     *)
(* text and type are free), whose entities lists are empty or hold what an *)
(* earlier detection left; and the two detectors.                          *)
(***************************************************************************)
DetTexts == {<<"a", "b", "c">>, <<"A", "b", "c">>}

DetTypes == {"paragraph", "heading"}

DetId(i) == IF i = 1 THEN "e1" ELSE IF i = 2 THEN "e2" ELSE "e3"

Cand(text, start, end, label) ==
    [text |-> text, start |-> start, end |-> end, label |-> label]

\* an entity of an earlier detection, which today's detectors do not report
StaleEntity(elem) == MakeEntity(Cand(OtherText, 0, 3, "ORG"), "ner", elem)

DetElements(i) ==
    LET bare == {[id |-> DetId(i), text |-> t, type |-> ty] :
                    t \in DetTexts, ty \in DetTypes}
    IN  {[id |-> b.id, text |-> b.text, type |-> b.type, entities |-> old] :
            b \in bare, old \in {<<>>}} \cup
        {[id |-> b.id, text |-> b.text, type |-> b.type,
          entities |-> <<StaleEntity(b)>>] : b \in bare}

DetDocuments ==
    {d \in SeqsUpTo(UNION {DetElements(i) : i \in 1..MaxElements}, MaxElements) :
        /\ Len(d) >= 1
        /\ \A i \in 1..Len(d) : d[i].id = DetId(i)}

PiiChoices ==
    {<<>>,
     <<Cand(Card_Valid, 0, 2, "CREDIT_CARD")>>,
     <<Cand(Card_Invalid, 0, 2, "CREDIT_CARD"), Cand(OtherText, 1, 3, "ZIP_CODE")>>}

NlpChoices ==
    {<<>>,
     <<Cand(OtherText, 1, 3, "PERSON")>>,
     <<Cand(OtherText, 2, 3, "PERSON"), Cand(OtherText, 0, 1, "PERSON")>>}

InitDetect ==
    /\ document \in DetDocuments
    /\ pii_matches \in [DetTexts -> PiiChoices]
    /\ nlp \in [DetTexts -> NlpChoices]
    /\ \A t \in DetTexts :
          /\ pii_matches[t] \in PatternLists([text |-> t])
          /\ nlp[t] \in NerLists([text |-> t])
    /\ elem_idx = 1
    /\ total_entities = 0
    /\ detect_calls = 0
    /\ detect_pc = "idle"

IdleDetect ==
    /\ document = <<>>
    /\ pii_matches = <<>>
    /\ nlp = <<>>
    /\ elem_idx = 1
    /\ total_entities = 0
    /\ detect_calls = 0
    /\ detect_pc = "idle"

(***************************************************************************)
(* A call of segment_document (document/document_parser.py 50-76) on a     *)
(* text of letters, spaces and newlines.                                   *)
(***************************************************************************)
SegmentDocument ==
    /\ ~seg_called
    /\ seg_ret' = segment_document(seg_text)
    /\ seg_called' = TRUE
    /\ UNCHANGED <<seg_text, file_path, file_system, file_opened, parse_ret>>
    /\ UNCHANGED <<luhnVars, resVars, evVars, bioVars, runVars, clsVars, detVars>>

SegChars == {"a", "b", " ", "\n"}

SegTexts == SeqsUpTo(SegChars, MaxTextLen)

InitSeg ==
    /\ seg_text \in SegTexts
    /\ seg_called = FALSE
    /\ seg_ret = <<>>

IdleSeg ==
    /\ seg_text = <<>>
    /\ seg_called = TRUE
    /\ seg_ret = <<>>

(***************************************************************************)
(* DocumentParser.parse (document/document_parser.py 133-149) with         *)
(* parse_text_file (89-112).  A path is a sequence of characters; the file *)
(* system maps the paths of the files that exist to their text.            *)
(***************************************************************************)
\* str.lower(), one character
LowerChar(c) ==
    CASE c = "A" -> "a" [] c = "B" -> "b" [] c = "C" -> "c" [] c = "D" -> "d"
      [] c = "E" -> "e" [] c = "F" -> "f" [] c = "G" -> "g" [] c = "H" -> "h"
      [] c = "I" -> "i" [] c = "J" -> "j" [] c = "K" -> "k" [] c = "L" -> "l"
      [] c = "M" -> "m" [] c = "N" -> "n" [] c = "O" -> "o" [] c = "P" -> "p"
      [] c = "Q" -> "q" [] c = "R" -> "r" [] c = "S" -> "s" [] c = "T" -> "t"
      [] c = "U" -> "u" [] c = "V" -> "v" [] c = "W" -> "w" [] c = "X" -> "x"
      [] c = "Y" -> "y" [] c = "Z" -> "z"
      [] OTHER -> c

\* file_path.lower()
Lower(s) == [k \in 1..Len(s) |-> LowerChar(s[k])]

\* str.rfind(c): the last position of c, 0-based, -1 when there is none
RFind(s, c) ==
    IF \E k \in 1..Len(s) : s[k] = c
    THEN (CHOOSE k \in 1..Len(s) :
             s[k] = c /\ \A j \in (k + 1)..Len(s) : s[j] # c) - 1
    ELSE -1

\* os.path.splitext(p)[1]: from the last dot of the last component, unless
\* only dots precede it there
splitext_ext(p) ==
    LET sepIndex == RFind(p, "/")
        dotIndex == RFind(p, ".")
    IN  IF /\ dotIndex > sepIndex
           /\ \E filenameIndex \in (sepIndex + 1)..(dotIndex - 1) :
                 p[filenameIndex + 1] # "."
        THEN SubSeq(p, dotIndex + 1, Len(p))
        ELSE <<>>

TextExtensions_all(ext) == TRUE

\* line 145: ext == '.txt' or not ext or ext == '.'
TextExtensions(ext) == ext \in {<<".", "t", "x", "t">>, <<>>, <<".">>}

\* line 149: the message of the ValueError
UnsupportedMessage(ext) ==
    <<"Unsupported file format: ">> \o ext \o
    <<". Only text files (.txt, no ext, .) are currently supported.">>

NoOutcome == [outcome |-> "pending", message |-> <<>>, elements |-> <<>>]

\* lines 133-149; parse_text_file opens the file (92), which raises
\* FileNotFoundError for a path without a file, and segments its text (96)
Parse ==
    /\ parse_ret.outcome = "pending"
    /\ LET ext == splitext_ext(Lower(file_path))
       IN  IF TextExtensions(ext)
           THEN /\ file_opened' = TRUE
                /\ parse_ret' =
                      IF file_path \in DOMAIN file_system
                      THEN [outcome |-> "Document", message |-> <<>>,
                            elements |-> segment_document(file_system[file_path])]
                      ELSE [outcome |-> "FileNotFoundError", message |-> <<>>,
                            elements |-> <<>>]
           ELSE /\ file_opened' = file_opened
                /\ parse_ret' = [outcome |-> "ValueError",
                                 message |-> UnsupportedMessage(ext),
                                 elements |-> <<>>]
    /\ UNCHANGED <<seg_text, seg_called, seg_ret, file_path, file_system>>
    /\ UNCHANGED <<luhnVars, resVars, evVars, bioVars, runVars, clsVars, detVars>>

FilePaths ==
    {<<"d", ".", "d", "o", "c", "x">>,
     <<"n", ".", "t", "x", "t">>,
     <<"n", ".", "p", "d", "f">>,
     <<"n", ".", "P", "D", "F">>,
     <<"n", ".", "T", "X", "T">>,
     <<"n">>,
     <<"n", ".">>,
     <<".", "t", "x", "t">>,
     <<"a", ".", "b", "/", "c">>,
     <<"n", ".", "t", "x", "t", ".", "p", "d", "f">>,
     <<"a", ".", "p", "d", "f", "/", "n", ".", "t", "x", "t">>}

FileTexts == {<<>>, <<"A">>, <<"a", "\n", "\n", "a">>}

NoFiles == [p \in {} |-> <<>>]

FileSystems ==
    {NoFiles} \cup
    {[p \in FilePaths |-> t] : t \in FileTexts} \cup
    {[p \in {<<"n", ".", "t", "x", "t">>, <<"n", ".", "p", "d", "f">>} |-> t] : t \in FileTexts}

InitFile ==
    /\ file_path \in FilePaths
    /\ file_system \in FileSystems
    /\ file_opened = FALSE
    /\ parse_ret = NoOutcome

IdleFile ==
    /\ file_path = <<>>
    /\ file_system = NoFiles
    /\ file_opened = FALSE
    /\ parse_ret = [outcome |-> "idle", message |-> <<>>, elements |-> <<>>]

IdleParse == IdleSeg /\ IdleFile

(***************************************************************************)
(* Specifications.                                                         *)
(***************************************************************************)
NextLuhn == IsLuhnValid

InitSpecLuhn == InitLuhn /\ IdleResolve /\ IdleEval /\ IdleBio /\ IdleRun /\ IdleCls /\ IdleDetect /\ IdleParse

SpecLuhn == InitSpecLuhn /\ [][NextLuhn]_vars

NextResolve == PatternStep \/ NerStep \/ SortReturn

InitSpecResolve == IdleLuhn /\ InitResolve /\ IdleEval /\ IdleBio /\ IdleRun /\ IdleCls /\ IdleDetect /\ IdleParse

SpecResolve == InitSpecResolve /\ [][NextResolve]_vars

NextEval == ElementStart \/ MatchPrediction \/ CountFalseNegatives \/ ComputeMetrics

InitSpecEval == IdleLuhn /\ IdleResolve /\ InitEval /\ IdleBio /\ IdleRun /\ IdleCls /\ IdleDetect /\ IdleParse

SpecEval == InitSpecEval /\ [][NextEval]_vars

(***************************************************************************)
(* evaluate_entity_detection on one element whose predictions do not       *)
(* overlap one another and whose ground-truth entries of one label do not  *)
(* overlap one another and come by ascending start: the inputs on which    *)
(* the greedy matching is compared with a maximum matching.                *)
(***************************************************************************)
MaxSpanEnd == 5

MaxMixedEnd == 3

MatchText(n) == SubSeq(<<"a", "b", "c", "d", "e", "f", "g", "h">>, 1, n)

MatchSpans(n) == {sp \in (0..n) \X (0..n) : sp[1] < sp[2]}

\* lists of spans by ascending start, each ending before the next starts
SpanLists(n) ==
    {l \in SeqsUpTo(MatchSpans(n), MaxEvalEntries) :
        \A i \in 1..(Len(l) - 1) : l[i][2] <= l[i + 1][1]}

\* the orders in which a list can be handed over
Orders(list) ==
    {[i \in 1..Len(list) |-> list[p[i]]] :
        p \in {f \in [1..Len(list) -> 1..Len(list)] :
                 \A i, j \in 1..Len(list) : f[i] = f[j] => i = j}}

MatchEntry(n, label, sp) ==
    [label |-> label, text |-> Slice(MatchText(n), sp[1], sp[2]),
     start_char |-> sp[1], end_char |-> sp[2]]

\* predictions of one label against student and teacher names, which
\* KAGGLE_TO_DOCUGUARD_LABEL_MAP both remaps to PERSON
PersonInputs ==
    {[elements |-> <<[id |-> "elem_0",
                      entities |-> [i \in 1..Len(preds) |->
                                      MatchEntry(MaxSpanEnd, "PERSON", preds[i])]]>>,
      gt |-> GtDict([i \in 1..Len(gl) |->
                       MatchEntry(MaxSpanEnd,
                                  IF alt /\ i % 2 = 0 THEN "NAME_TEACHER"
                                                      ELSE "NAME_STUDENT",
                                  gl[i])], <<>>)] :
        preds \in UNION {Orders(pl) : pl \in SpanLists(MaxSpanEnd)},
        gl \in SpanLists(MaxSpanEnd), alt \in BOOLEAN}

\* predictions and ground truth of two labels; ground-truth entries of
\* different labels may overlap and come in any order
MixedInputs ==
    {[elements |-> <<[id |-> "elem_0",
                      entities |-> [i \in 1..Len(preds) |->
                                      MatchEntry(MaxMixedEnd, pls[i], preds[i])]]>>,
      gt |-> GtDict(gts, <<>>)] :
        preds \in UNION {Orders(pl) : pl \in SpanLists(MaxMixedEnd)},
        pls \in [1..MaxEvalEntries -> {"PERSON", "EMAIL"}],
        gts \in {g \in SeqsUpTo({MatchEntry(MaxMixedEnd, l, sp) :
                                   l \in {"NAME_STUDENT", "EMAIL"},
                                   sp \in MatchSpans(MaxMixedEnd)}, 2) :
                   \A i, j \in 1..Len(g) :
                       (i < j /\ g[i].label = g[j].label) =>
                           g[i].end_char <= g[j].start_char}}

MatchThresholds == {[num |-> 1, den |-> 2], [num |-> 3, den |-> 5]}

InitMatch ==
    /\ \E input \in PersonInputs \cup MixedInputs :
          /\ doc_elements = input.elements
          /\ ground_truth = input.gt
    /\ label_map = KAGGLE_TO_DOCUGUARD_LABEL_MAP
    /\ match_strategy = "overlap"
    /\ overlap_threshold \in MatchThresholds
    /\ true_positives = ZeroCounts
    /\ false_positives = ZeroCounts
    /\ false_negatives = ZeroCounts
    /\ unique_labels = {}
    /\ pred_matches = NoMatches
    /\ gt_matches = NoMatches
    /\ e_idx = 1
    /\ q_idx = 0
    /\ results = EmptyResults
    /\ ev_done = FALSE

NextMatch == ElementStart \/ MatchPrediction \/ CountFalseNegatives \/ ComputeMetrics

InitSpecMatch == IdleLuhn /\ IdleResolve /\ InitMatch /\ IdleBio /\ IdleRun /\ IdleCls /\ IdleDetect /\ IdleParse

SpecMatch == InitSpecMatch /\ [][NextMatch]_vars

NextBio == TokenStep \/ FinishConversion

InitSpecBio == IdleLuhn /\ IdleResolve /\ IdleEval /\ InitBio /\ IdleRun /\ IdleCls /\ IdleDetect /\ IdleParse

SpecBio == InitSpecBio /\ [][NextBio]_vars

NextRun ==
    \/ LoadRow
    \/ StartRun
    \/ ProcessDocument
    \/ TokenStep
    \/ FinishConversion
    \/ MapGroundTruth
    \/ ElementStart
    \/ MatchPrediction
    \/ CountFalseNegatives
    \/ ComputeMetrics
    \/ AggregateDocument
    \/ FinalMetrics

InitSpecRun ==
    IdleLuhn /\ IdleResolve /\ IdleEval /\ IdleBio /\ InitRun /\ IdleCls /\ IdleDetect /\ IdleParse

SpecRun == InitSpecRun /\ [][NextRun]_vars

NextCls == AssignBaseRisk \/ ClassifySensitivity

InitSpecCls ==
    IdleLuhn /\ IdleResolve /\ IdleEval /\ IdleBio /\ IdleRun /\ InitCls /\ IdleDetect /\ IdleParse

SpecCls == InitSpecCls /\ [][NextCls]_vars

NextDetect ==
    \/ DetectEntities
    \/ EnterElement
    \/ PatternStep
    \/ NerStep
    \/ SortReturn
    \/ AssignEntities
    \/ FinishDetect

InitSpecDetect ==
    IdleLuhn /\ IdleResolve /\ IdleEval /\ IdleBio /\ IdleRun /\ IdleCls /\ InitDetect /\ IdleParse

SpecDetect == InitSpecDetect /\ [][NextDetect]_vars

NextSeg == SegmentDocument

InitSpecSeg ==
    IdleLuhn /\ IdleResolve /\ IdleEval /\ IdleBio /\ IdleRun /\ IdleCls /\ IdleDetect /\ InitSeg /\ IdleFile

SpecSeg == InitSpecSeg /\ [][NextSeg]_vars

NextParse == Parse

InitSpecParse ==
    IdleLuhn /\ IdleResolve /\ IdleEval /\ IdleBio /\ IdleRun /\ IdleCls /\ IdleDetect /\ IdleSeg /\ InitFile

SpecParse == InitSpecParse /\ [][NextParse]_vars

(***************************************************************************)
(* Vocabulary of the claims, stated without the operators of the model.    *)
(***************************************************************************)
\* the half-open spans [s1, e1) and [s2, e2) share a character index
SharesIndex(s1, e1, s2, e2) == s1 < e1 /\ s2 < e2 /\ s1 < e2 /\ s2 < e1

CandsShare(c, d) == SharesIndex(c.start, c.end, d.start, d.end)

CandEntShare(c, e) == SharesIndex(c.start, c.end, e.start_char, e.end_char)

\* the resolved list holds an entity made from candidate c of that source
IsKept(c, source) ==
    \E k \in 1..Len(combined_entities) :
        LET e == combined_entities[k]
        IN  /\ e.source = source
            /\ e.text = c.text
            /\ e.label = c.label
            /\ e.start_char = c.start
            /\ e.end_char = c.end

\* the Luhn checksum as the specification words it: digits right to left,
\* every second one doubled, a doubled value >= 10 replaced by the sum of
\* its two digits (that is, less 9), everything summed
RefDoubled(d) == IF 2 * d >= 10 THEN 2 * d - 9 ELSE 2 * d

RECURSIVE RefDigitsOf(_)
RefDigitsOf(s) ==
    IF s = <<>> THEN <<>>
    ELSE IF Head(s) \in DigitChars
         THEN <<DigitValue(Head(s))>> \o RefDigitsOf(Tail(s))
         ELSE RefDigitsOf(Tail(s))

RECURSIVE RefChecksumFrom(_, _)
RefChecksumFrom(ds, fromRight) ==
    IF fromRight > Len(ds) THEN 0
    ELSE LET d == ds[Len(ds) + 1 - fromRight]
         IN  (IF fromRight % 2 = 0 THEN RefDoubled(d) ELSE d)
             + RefChecksumFrom(ds, fromRight + 1)

RefLuhnValid(s) == RefChecksumFrom(RefDigitsOf(s), 1) % 10 = 0

RefCardFails(c) ==
    /\ c.label = "CREDIT_CARD"
    /\ ~RefLuhnValid(SelectSeq(c.text, LAMBDA ch : ch \notin {"-", " "}))

\* the candidate handled by the step from this state, if the step is one of
\* the two loops
PatternLoopStep == p_idx' = p_idx + 1

NerLoopStep == n_idx' = n_idx + 1

(***************************************************************************)
(* C1: the list detect_entities_in_element returns holds no two entities   *)
(* whose half-open spans share a character index, and is in ascending      *)
(* start_char order.                                                       *)
(***************************************************************************)
C1_DisjointAndSorted ==
    returned =>
        /\ \A i, j \in 1..Len(combined_entities) :
              i < j =>
                  ~SharesIndex(combined_entities[i].start_char,
                               combined_entities[i].end_char,
                               combined_entities[j].start_char,
                               combined_entities[j].end_char)
        /\ \A i \in 1..(Len(combined_entities) - 1) :
              combined_entities[i].start_char <= combined_entities[i + 1].start_char

\* a returned list of both sources that the sort reordered, with a discard
C1_Witness ==
    /\ returned
    /\ Len(combined_entities) >= 2
    /\ Len(combined_entities) < Len(pattern_entities) + Len(ner_entities)
    /\ \E i, j \in 1..Len(combined_entities) :
          /\ i < j
          /\ combined_entities[i].source = "ner"
          /\ combined_entities[j].source = "pattern"

(***************************************************************************)
(* C2 as stated: whenever a pattern-sourced and a model-sourced candidate  *)
(* overlap, the pattern-sourced one is kept and the model-sourced one is   *)
(* discarded.                                                              *)
(***************************************************************************)
C2_PatternAlwaysWins ==
    returned =>
        \A i \in 1..Len(pattern_entities), j \in 1..Len(ner_entities) :
            CandsShare(pattern_entities[i], ner_entities[j]) =>
                /\ IsKept(pattern_entities[i], "pattern")
                /\ ~IsKept(ner_entities[j], "ner")

\* pattern candidate i passes the checksum and shares no index with an
\* earlier pattern candidate that is itself accepted
RECURSIVE PatternAccepted(_, _)
PatternAccepted(pats, i) ==
    /\ ~RefCardFails(pats[i])
    /\ \A k \in 1..(i - 1) :
          PatternAccepted(pats, k) => ~CandsShare(pats[k], pats[i])

(***************************************************************************)
(* C2 as amended: a pattern-sourced candidate that passes the checksum and *)
(* overlaps no earlier accepted pattern candidate is kept whatever the     *)
(* model-sourced candidates are, and every model-sourced candidate that    *)
(* overlaps it is discarded.                                               *)
(***************************************************************************)
C2_AcceptedPatternWins ==
    returned =>
        \A i \in 1..Len(pattern_entities) :
            PatternAccepted(pattern_entities, i) =>
                /\ IsKept(pattern_entities[i], "pattern")
                /\ \A j \in 1..Len(ner_entities) :
                      CandsShare(pattern_entities[i], ner_entities[j]) =>
                          ~IsKept(ner_entities[j], "ner")

\* an accepted pattern candidate beat an overlapping model candidate while
\* another model candidate was kept
C2_Witness ==
    /\ returned
    /\ \E i \in 1..Len(pattern_entities), j \in 1..Len(ner_entities) :
          /\ PatternAccepted(pattern_entities, i)
          /\ CandsShare(pattern_entities[i], ner_entities[j])
          /\ IsKept(pattern_entities[i], "pattern")
          /\ ~IsKept(ner_entities[j], "ner")
    /\ \E k \in 1..Len(combined_entities) : combined_entities[k].source = "ner"

(***************************************************************************)
(* C3: a candidate whose span has start >= end, or lies partly outside     *)
(* [0, len(text)], never appears in the resolved list.                     *)
(***************************************************************************)
InvalidSpan(c, elem) == c.start >= c.end \/ c.start < 0 \/ c.end > Len(elem.text)

C3_InvalidSpanDropped ==
    returned =>
        /\ \A i \in 1..Len(pattern_entities) :
              InvalidSpan(pattern_entities[i], element) =>
                  ~IsKept(pattern_entities[i], "pattern")
        /\ \A j \in 1..Len(ner_entities) :
              InvalidSpan(ner_entities[j], element) =>
                  ~IsKept(ner_entities[j], "ner")

(***************************************************************************)
(* C4: is_luhn_valid(s) is true exactly when the Luhn checksum of the      *)
(* digits of s is divisible by 10; "4532015112830366" is valid and         *)
(* "4532015112830367" is not.                                              *)
(***************************************************************************)
C4_LuhnMatchesChecksum ==
    luhn_ret \in {"True", "False"} =>
        /\ (luhn_ret = "True") <=> RefLuhnValid(card_number)
        /\ card_number = Card_Valid => luhn_ret = "True"
        /\ card_number = Card_Invalid => luhn_ret = "False"

C4_Witness == card_number = Card_Valid /\ luhn_ret = "True"

(***************************************************************************)
(* C5: a CREDIT_CARD pattern candidate that fails the Luhn check never     *)
(* appears in the resolved list and never enters the covered set: the step *)
(* that handles it changes neither, the covered set is always exactly the  *)
(* indices of the accepted entities, and a candidate is discarded only     *)
(* when it fails the checksum itself or shares an index with an entity     *)
(* accepted before it.                                                     *)
(***************************************************************************)
C5_LuhnFailureNeverEnters ==
    /\ [](\A k \in 1..Len(combined_entities) :
            (combined_entities[k].source = "pattern"
               /\ combined_entities[k].label = "CREDIT_CARD")
            => RefLuhnValid(SelectSeq(combined_entities[k].text,
                                      LAMBDA ch : ch \notin {"-", " "})))
    /\ [](covered_spans =
            {i \in -1..(Len(element.text) + 1) :
                \E k \in 1..Len(combined_entities) :
                    /\ combined_entities[k].start_char <= i
                    /\ i < combined_entities[k].end_char})
    /\ [][(PatternLoopStep /\ RefCardFails(pattern_entities[p_idx]))
            => UNCHANGED <<combined_entities, covered_spans>>]_vars
    /\ [][(PatternLoopStep /\ ~RefCardFails(pattern_entities[p_idx])
             /\ combined_entities' = combined_entities)
            => \E k \in 1..Len(combined_entities) :
                  CandEntShare(pattern_entities[p_idx], combined_entities[k])]_vars
    /\ [][(NerLoopStep /\ combined_entities' = combined_entities)
            => \E k \in 1..Len(combined_entities) :
                  CandEntShare(ner_entities[n_idx], combined_entities[k])]_vars

\* a failing card candidate was handled and a model candidate sharing an
\* index with it was accepted afterwards
C5_Witness ==
    /\ returned
    /\ \E i \in 1..Len(pattern_entities), j \in 1..Len(ner_entities) :
          /\ RefCardFails(pattern_entities[i])
          /\ CandsShare(pattern_entities[i], ner_entities[j])
          /\ IsKept(ner_entities[j], "ner")

(***************************************************************************)
(* Vocabulary of the evaluation claims.                                    *)
(***************************************************************************)
\* the ground-truth list of the k-th element
RefGts(k) ==
    IF doc_elements[k].id \in DOMAIN ground_truth
    THEN ground_truth[doc_elements[k].id]
    ELSE <<>>

\* the remapped label of a ground-truth entry
RefGtLabel(gt) ==
    IF gt.label \in DOMAIN label_map THEN label_map[gt.label] ELSE gt.label

\* every ground-truth entry of the evaluated elements, as (element, index)
RefGtEntries ==
    {kg \in (1..Len(doc_elements)) \X (1..MaxEvalEntries + 1) :
        kg[2] <= Len(RefGts(kg[1]))}

RefGtCount(L) ==
    Cardinality({kg \in RefGtEntries : RefGtLabel(RefGts(kg[1])[kg[2]]) = L})

\* the entry is consumed, under whatever label
RefConsumed(k, g) ==
    \E L \in EvalLabels : <<doc_elements[k].id, g>> \in gt_matches[L]

\* every prediction of the evaluated elements, as (element, index)
RefPredEntries ==
    {kq \in (1..Len(doc_elements)) \X (1..MaxEvalEntries + 1) :
        kq[2] <= Len(doc_elements[kq[1]].entities)}

\* the prediction has been through the matching loop
RefProcessed(kq) == kq[1] < e_idx \/ (kq[1] = e_idx /\ kq[2] < q_idx)

\* the step is one pass of the loop over the predictions
MatchLoopStep == q_idx >= 1 /\ q_idx' = q_idx + 1

(***************************************************************************)
(* C6: a ground-truth entry is consumed by at most one prediction (every   *)
(* true positive consumes an entry of its own, of the prediction's label), *)
(* and at the end every ground-truth entry is counted once under its       *)
(* remapped label, as a true positive if consumed and as a false negative  *)
(* otherwise: TP[L] + FN[L], the reported support, is the number of        *)
(* ground-truth entries whose remapped label is L.                         *)
(***************************************************************************)
C6_GroundTruthCountedOnce ==
    /\ \A L \in EvalLabels :
          /\ Cardinality(gt_matches[L]) = true_positives[L]
          /\ Cardinality(pred_matches[L]) = true_positives[L]
          /\ \A id \in gt_matches[L] :
                \E kg \in RefGtEntries :
                    /\ doc_elements[kg[1]].id = id[1]
                    /\ kg[2] = id[2]
                    /\ RefGtLabel(RefGts(kg[1])[kg[2]]) = L
    /\ ev_done =>
          \A L \in EvalLabels :
              /\ false_negatives[L] =
                    Cardinality({kg \in RefGtEntries :
                        /\ RefGtLabel(RefGts(kg[1])[kg[2]]) = L
                        /\ ~RefConsumed(kg[1], kg[2])})
              /\ true_positives[L] + false_negatives[L] = RefGtCount(L)
              /\ L \in DOMAIN results.per_class =>
                    results.per_class[L].support = RefGtCount(L)

\* two predictions competed for one entry, and another entry went unmatched
C6_Witness ==
    /\ ev_done
    /\ Len(doc_elements[1].entities) = 2
    /\ doc_elements[1].entities[1] = doc_elements[1].entities[2]
    /\ <<"elem_0", 1>> \in pred_matches["PERSON"]
    /\ <<"elem_0", 2>> \notin pred_matches["PERSON"]
    /\ false_positives["PERSON"] = 1
    /\ false_negatives["PHONE"] >= 1

(***************************************************************************)
(* C7: under 'exact' a prediction is a true positive iff its element holds *)
(* a not yet consumed ground-truth entry of the same remapped label with   *)
(* identical text, start_char and end_char; it consumes the first such     *)
(* entry, and otherwise it is a false positive.  [(PERSON,'Alice',0,5)]    *)
(* against [(PERSON,'Alice',0,5)] gives TP=1, FP=0, FN=0 and precision =   *)
(* recall = f1 = 1.                                                        *)
(***************************************************************************)
RefExactCandidates(k, pred) ==
    {g \in 1..Len(RefGts(k)) :
        /\ ~RefConsumed(k, g)
        /\ RefGtLabel(RefGts(k)[g]) = pred.label
        /\ RefGts(k)[g].text = pred.text
        /\ RefGts(k)[g].start_char = pred.start_char
        /\ RefGts(k)[g].end_char = pred.end_char}

SetMin(S) == CHOOSE x \in S : \A y \in S : x <= y

C7_ExactStep ==
    (MatchLoopStep /\ match_strategy = "exact") =>
        LET pred == doc_elements[e_idx].entities[q_idx]
            cands == RefExactCandidates(e_idx, pred)
        IN  IF cands # {}
            THEN /\ true_positives' =
                      [true_positives EXCEPT ![pred.label] = @ + 1]
                 /\ false_positives' = false_positives
                 /\ gt_matches' =
                      [gt_matches EXCEPT ![pred.label] =
                          @ \cup {<<doc_elements[e_idx].id, SetMin(cands)>>}]
            ELSE /\ false_positives' =
                      [false_positives EXCEPT ![pred.label] = @ + 1]
                 /\ true_positives' = true_positives
                 /\ gt_matches' = gt_matches

C7_ExactExample ==
    (/\ ev_done
     /\ match_strategy = "exact"
     /\ doc_elements = ExampleExact.elements
     /\ ground_truth = ExampleExact.gt) =>
        /\ true_positives["PERSON"] = 1
        /\ false_positives["PERSON"] = 0
        /\ false_negatives["PERSON"] = 0
        /\ results.per_class["PERSON"].precision = <<1, 1>>
        /\ results.per_class["PERSON"].recall = <<1, 1>>
        /\ results.per_class["PERSON"].f1 = <<1, 1>>
        /\ results.overall.precision = <<1, 1>>
        /\ results.overall.recall = <<1, 1>>
        /\ results.overall.f1 = <<1, 1>>

C7_ExactMatching == [][C7_ExactStep]_vars /\ []C7_ExactExample

\* of two identical unconsumed entries the first was consumed, not the second
C7_Witness ==
    /\ ev_done
    /\ match_strategy = "exact"
    /\ Len(RefGts(1)) >= 2
    /\ RefGts(1)[1] = RefGts(1)[2]
    /\ <<"elem_0", 1>> \in gt_matches["PERSON"]
    /\ <<"elem_0", 2>> \notin gt_matches["PERSON"]

(***************************************************************************)
(* C8: under 'overlap' a ground-truth entry is matched to a prediction     *)
(* only if it has the same remapped label, is not yet consumed, and with   *)
(* overlap = max(0, min(ends) - max(starts)) both overlap / pred_length    *)
(* and overlap / gt_length are >= threshold.  [0,10) against [2,9) of the  *)
(* same label matches at 0.5; at 0.9 it is a false positive and a false    *)
(* negative.                                                               *)
(***************************************************************************)
RefOverlap(pred, gt) ==
    LET lo == IF pred.start_char >= gt.start_char
              THEN pred.start_char ELSE gt.start_char
        hi == IF pred.end_char <= gt.end_char THEN pred.end_char ELSE gt.end_char
    IN  IF hi - lo > 0 THEN hi - lo ELSE 0

\* x / len >= num / den, for len > 0
RefRatioAtLeast(x, len, threshold) ==
    len > 0 /\ x * threshold.den >= threshold.num * len

C8_OverlapStep ==
    (MatchLoopStep /\ match_strategy = "overlap") =>
        LET pred == doc_elements[e_idx].entities[q_idx]
            id == doc_elements[e_idx].id
        IN  \A L \in EvalLabels :
                \A m \in gt_matches'[L] \ gt_matches[L] :
                    /\ m[1] = id
                    /\ L = pred.label
                    /\ m[2] \in 1..Len(RefGts(e_idx))
                    /\ ~RefConsumed(e_idx, m[2])
                    /\ RefGtLabel(RefGts(e_idx)[m[2]]) = pred.label
                    /\ RefRatioAtLeast(RefOverlap(pred, RefGts(e_idx)[m[2]]),
                                       pred.end_char - pred.start_char,
                                       overlap_threshold)
                    /\ RefRatioAtLeast(RefOverlap(pred, RefGts(e_idx)[m[2]]),
                                       RefGts(e_idx)[m[2]].end_char
                                         - RefGts(e_idx)[m[2]].start_char,
                                       overlap_threshold)

C8_OverlapExample ==
    (/\ ev_done
     /\ match_strategy = "overlap"
     /\ doc_elements = ExampleOverlap.elements
     /\ ground_truth = ExampleOverlap.gt) =>
        /\ overlap_threshold = [num |-> 1, den |-> 2] =>
              /\ true_positives["ADDRESS"] = 1
              /\ false_positives["ADDRESS"] = 0
              /\ false_negatives["ADDRESS"] = 0
        /\ overlap_threshold = [num |-> 9, den |-> 10] =>
              /\ true_positives["ADDRESS"] = 0
              /\ false_positives["ADDRESS"] = 1
              /\ false_negatives["ADDRESS"] = 1

C8_OverlapMatching == [][C8_OverlapStep]_vars /\ []C8_OverlapExample

\* a partial overlap that matches at 0.5, with an entry missed
C8_Witness ==
    /\ ev_done
    /\ match_strategy = "overlap"
    /\ overlap_threshold = [num |-> 1, den |-> 2]
    /\ \E m \in gt_matches["PERSON"] :
          /\ m[1] = "elem_0"
          /\ \E q \in 1..Len(doc_elements[1].entities) :
                /\ <<"elem_0", q>> \in pred_matches["PERSON"]
                /\ RefOverlap(doc_elements[1].entities[q], RefGts(1)[m[2]]) = 1
                /\ RefGts(1)[m[2]].end_char - RefGts(1)[m[2]].start_char = 2
    /\ false_negatives["PERSON"] >= 1

(***************************************************************************)
(* C9: every prediction of every evaluated element is counted exactly      *)
(* once, under its own label, as a true positive or a false positive:      *)
(* TP[L] + FP[L] is the number of predictions labelled L (at every moment, *)
(* of those the loop has handled).                                         *)
(***************************************************************************)
C9_PredictionsCountedOnce ==
    \A L \in EvalLabels :
        true_positives[L] + false_positives[L] =
            Cardinality({kq \in RefPredEntries :
                /\ RefProcessed(kq)
                /\ doc_elements[kq[1]].entities[kq[2]].label = L})

C9_Witness ==
    /\ ev_done
    /\ true_positives["PERSON"] >= 1
    /\ false_positives["PERSON"] >= 2
    /\ false_positives["PHONE_NUM"] >= 1

(***************************************************************************)
(* Vocabulary of the conversion claims: the offsets of the tokens, from    *)
(* the inputs alone.  -1 marks a token that is not found.                  *)
(***************************************************************************)
RefIsWhitespace(c) == c = " " \/ c = "\n" \/ c = "\t"

\* the first offset at or after c that holds no whitespace
RefPastWhitespace(c) ==
    CHOOSE k \in c..Len(full_text) :
        /\ k = Len(full_text) \/ ~RefIsWhitespace(full_text[k + 1])
        /\ \A j \in c..(k - 1) : RefIsWhitespace(full_text[j + 1])

RefOccursAt(token, k) ==
    /\ k + Len(token) <= Len(full_text)
    /\ \A j \in 1..Len(token) : full_text[k + j] = token[j]

RECURSIVE RefTokenStart(_)
RefTokenEnd(k) ==
    IF k = 0 THEN 0
    ELSE IF RefTokenStart(k) = -1 THEN -1
    ELSE RefTokenStart(k) + Len(tokens[k])

RefTokenStart(k) ==
    IF RefTokenEnd(k - 1) = -1 THEN -1
    ELSE LET from == RefPastWhitespace(RefTokenEnd(k - 1))
             occ == {o \in from..Len(full_text) : RefOccursAt(tokens[k], o)}
         IN  IF occ = {} THEN -1
             ELSE CHOOSE o \in occ : \A o2 \in occ : o <= o2

\* tokens i..j are a B-L token and the I-L tokens that follow it, all of them
RefIsRun(i, j, L) ==
    /\ labels[i] = <<"B", "-">> \o L
    /\ \A k \in (i + 1)..j : labels[k] = <<"I", "-">> \o L
    /\ j = Len(labels) \/ labels[j + 1] # <<"I", "-">> \o L

RefLabels == {PERSON, EMAIL}

(***************************************************************************)
(* C10: in a conversion that returns, a B-L token and the I-L tokens that  *)
(* follow it give exactly one entity, labelled L, from the first token's   *)
(* start offset to the last of these tokens' end offset (also when the run *)
(* ends with the last token), with the text between the two offsets.       *)
(* [John, Doe, works] tagged [B-PERSON, I-PERSON, O] against               *)
(* 'John Doe works' returns exactly {'John Doe', PERSON, 0, 8}.            *)
(***************************************************************************)
C10_RunBecomesOneEntity ==
    /\ bio_pc = "returned" =>
          \A i \in 1..Len(tokens) : \A j \in i..Len(tokens) :
              \A L \in RefLabels :
                  RefIsRun(i, j, L) =>
                      /\ Cardinality({x \in 1..Len(bio_ret) :
                            bio_ret[x].start_char = RefTokenStart(i)}) = 1
                      /\ \E x \in 1..Len(bio_ret) :
                            bio_ret[x] =
                                [text |-> SubSeq(full_text, RefTokenStart(i) + 1,
                                                 RefTokenEnd(j)),
                                 label |-> L,
                                 start_char |-> RefTokenStart(i),
                                 end_char |-> RefTokenEnd(j)]
    /\ (/\ bio_pc \in {"returned", "aborted"}
        /\ tokens = JohnDoeTokens
        /\ labels = JohnDoeTags
        /\ full_text = JohnDoeText) =>
          /\ bio_pc = "returned"
          /\ bio_ret = <<[text |-> <<"J", "o", "h", "n", " ", "D", "o", "e">>,
                          label |-> PERSON,
                          start_char |-> 0,
                          end_char |-> 8]>>

\* a run of two tokens that ends with the last token, after another entity
C10_Witness ==
    /\ bio_pc = "returned"
    /\ labels = <<BTag(EMAIL), BTag(PERSON), ITag(PERSON)>>
    /\ Len(bio_ret) = 2
    /\ bio_ret[2].label = PERSON
    /\ bio_ret[2].end_char = Len(full_text)
    /\ bio_ret[2].end_char - bio_ret[2].start_char > Len(tokens[2])

(***************************************************************************)
(* C11: a conversion in which some token is not found in the text at or    *)
(* after the cursor (whitespace skipped) never returns entities: it ends   *)
(* at the first such token, returning the empty list whatever entities it  *)
(* had closed before; a conversion in which every token is found never     *)
(* ends this way.                                                          *)
(***************************************************************************)
RefSomeTokenMissing == \E k \in 1..Len(tokens) : RefTokenStart(k) = -1

C11_MissingTokenReturnsEmpty ==
    /\ bio_pc = "returned" => ~RefSomeTokenMissing
    /\ bio_pc = "aborted" =>
          /\ bio_ret = <<>>
          /\ RefTokenStart(tok_i) = -1
          /\ \A k \in 1..(tok_i - 1) : RefTokenStart(k) # -1
    /\ (bio_pc = "loop" /\ RefSomeTokenMissing) =>
          /\ tok_i <= Len(tokens)
          /\ \A k \in 1..(tok_i - 1) : RefTokenStart(k) # -1

\* the conversion ended at a missing token after it had closed an entity
C11_Witness ==
    /\ bio_pc = "aborted"
    /\ entities # <<>>
    /\ bio_ret = <<>>
    /\ tok_i = 3

(***************************************************************************)
(* Vocabulary of the claims about run_kaggle_evaluation.                   *)
(***************************************************************************)
\* the step that aggregates the current document
AggregateStep == run_pc = "evaluate" /\ run_pc' = "docs"

\* the predictions of the current document labelled L
RefDocPredictions(L) ==
    {kq \in (1..Len(doc)) \X (1..4) :
        /\ kq[2] <= Len(doc[kq[1]].entities)
        /\ doc[kq[1]].entities[kq[2]].label = L}

\* what the run derives for label L from a document that has the current
\* document's predictions and no ground-truth entity at all
RefZeroTruthCounts(L) ==
    IF RefDocPredictions(L) = {}
    THEN [tp |-> FracZero, fp |-> FracZero, fn |-> FracZero]
    ELSE BackDerived(MetricsOf(0, Cardinality(RefDocPredictions(L)), 0))

\* the step adds what it adds for a document without ground-truth entities
RefAggregatedAsZeroTruth ==
    \A L \in EvalLabels :
        /\ agg_tp'[L] = FracAdd(agg_tp[L], RefZeroTruthCounts(L).tp)
        /\ agg_fp'[L] = FracAdd(agg_fp[L], RefZeroTruthCounts(L).fp)
        /\ agg_fn'[L] = FracAdd(agg_fn[L], RefZeroTruthCounts(L).fn)
        /\ (L \in all_labels') =
              (L \in all_labels \/ RefDocPredictions(L) # {})

(***************************************************************************)
(* C12: a document whose ground-truth conversion aborted on a token that   *)
(* was not found is told apart from a document without ground-truth        *)
(* entities: when the run aggregates such a document (one that holds a     *)
(* prediction), it does not add to the corpus counters and labels what it  *)
(* adds for a document with the same predictions and zero true entities.   *)
(***************************************************************************)
C12_AbortedDocumentToldApart ==
    [][(/\ AggregateStep
        /\ bio_pc = "aborted"
        /\ \E L \in EvalLabels : RefDocPredictions(L) # {})
          => ~RefAggregatedAsZeroTruth]_vars

(***************************************************************************)
(* C13: for every label it reports, evaluate_entity_detection gives        *)
(* precision = TP/(TP+FP), recall = TP/(TP+FN), f1 = 2PR/(P+R), each 0     *)
(* when its denominator is 0, and support = TP+FN; the overall metrics     *)
(* are the same formulas on TP, FP and FN summed over the labels.  A       *)
(* ratio x is n/d when x[1] * d = n * x[2].                                *)
(***************************************************************************)
RefIsRatio(x, n, d) ==
    /\ x[2] > 0
    /\ IF d = 0 THEN x[1] = 0 ELSE x[1] * d = n * x[2]

\* 2PR/(P+R) for P = TP/(TP+FP) and R = TP/(TP+FN): numerator, denominator
RefF1Num(tp, fp, fn) ==
    IF tp + fp = 0 \/ tp + fn = 0 THEN 0 ELSE 2 * tp * tp

RefF1Den(tp, fp, fn) ==
    IF tp + fp = 0 \/ tp + fn = 0 THEN 0
    ELSE tp * (tp + fn) + tp * (tp + fp)

RefMetricsAre(m, tp, fp, fn) ==
    /\ RefIsRatio(m.precision, tp, tp + fp)
    /\ RefIsRatio(m.recall, tp, tp + fn)
    /\ RefIsRatio(m.f1, RefF1Num(tp, fp, fn), RefF1Den(tp, fp, fn))
    /\ m.support = tp + fn

RECURSIVE RefTotal(_, _)
RefTotal(counts, S) ==
    IF S = {} THEN 0
    ELSE LET l == CHOOSE x \in S : TRUE IN counts[l] + RefTotal(counts, S \ {l})

C13_MetricFormulas ==
    ev_done =>
        /\ \A L \in EvalLabels :
              (true_positives[L] + false_positives[L] + false_negatives[L] > 0)
                  => L \in DOMAIN results.per_class
        /\ \A L \in DOMAIN results.per_class :
              RefMetricsAre(results.per_class[L], true_positives[L],
                            false_positives[L], false_negatives[L])
        /\ RefMetricsAre(results.overall,
                         RefTotal(true_positives, EvalLabels),
                         RefTotal(false_positives, EvalLabels),
                         RefTotal(false_negatives, EvalLabels))

\* a label with all three counts positive and a label with a zero denominator
C13_Witness ==
    /\ ev_done
    /\ run_pc = "idle"
    /\ true_positives["PERSON"] = 1
    /\ false_positives["PERSON"] = 2
    /\ false_negatives["PERSON"] = 1
    /\ "PHONE" \in DOMAIN results.per_class
    /\ true_positives["PHONE"] + false_positives["PHONE"] = 0
    /\ results.per_class["PHONE"].precision = <<0, 1>>
    /\ results.per_class["PERSON"].precision = <<1, 3>>
    /\ results.per_class["PERSON"].recall = <<1, 2>>
    /\ results.per_class["PERSON"].f1 = <<2, 5>>

(***************************************************************************)
(* C14: the label map is applied to ground-truth labels only, as the       *)
(* identity on labels it does not hold; a prediction is compared under its *)
(* own label.  Every match pairs a prediction with an entry whose remapped *)
(* label is the prediction's label and counts under that label; a label    *)
(* that the map sends elsewhere and that is no image of the map (such as   *)
(* PHONE_NUM, sent to PHONE) never has a true positive nor a false         *)
(* negative: its predictions are all false positives.                      *)
(***************************************************************************)
RefRemappedAway(L) ==
    /\ L \in DOMAIN label_map
    /\ label_map[L] # L
    /\ \A k \in DOMAIN label_map : label_map[k] # L

C14_MatchStep ==
    MatchLoopStep =>
        LET pred == doc_elements[e_idx].entities[q_idx]
        IN  /\ \A L \in EvalLabels \ {pred.label} :
                  /\ true_positives'[L] = true_positives[L]
                  /\ false_positives'[L] = false_positives[L]
                  /\ gt_matches'[L] = gt_matches[L]
            /\ \A m \in gt_matches'[pred.label] \ gt_matches[pred.label] :
                  /\ m[1] = doc_elements[e_idx].id
                  /\ m[2] \in 1..Len(RefGts(e_idx))
                  /\ RefGtLabel(RefGts(e_idx)[m[2]]) = pred.label

C14_RemappedAwayNeverMatches ==
    \A L \in EvalLabels :
        RefRemappedAway(L) =>
            /\ true_positives[L] = 0
            /\ false_negatives[L] = 0
            /\ gt_matches[L] = {}

C14_MapOnGroundTruthOnly ==
    [][C14_MatchStep]_vars /\ []C14_RemappedAwayNeverMatches

\* a PHONE_NUM prediction on the very span and text of a PHONE_NUM entry
C14_Witness ==
    /\ ev_done
    /\ run_pc = "idle"
    /\ label_map = KAGGLE_TO_DOCUGUARD_LABEL_MAP
    /\ \E q \in 1..Len(doc_elements[1].entities) :
          \E g \in 1..Len(RefGts(1)) :
              /\ doc_elements[1].entities[q].label = "PHONE_NUM"
              /\ RefGts(1)[g].label = "PHONE_NUM"
              /\ RefGts(1)[g].text = doc_elements[1].entities[q].text
              /\ RefGts(1)[g].start_char = doc_elements[1].entities[q].start_char
              /\ RefGts(1)[g].end_char = doc_elements[1].entities[q].end_char
    /\ false_positives["PHONE_NUM"] = 1
    /\ false_negatives["PHONE"] = 2

(***************************************************************************)
(* C15: for each label of a document's per-class metrics the run adds to   *)
(* the label's sums tp = support * recall, fp = tp / precision - tp when   *)
(* precision > 0 and support * (1 - recall) otherwise, fn = support - tp;  *)
(* the final per-label precision, recall, F1 and support are recomputed    *)
(* from the sums, and the overall figures from the sums over all labels.   *)
(* Rationals are pairs compared by cross-multiplication.                   *)
(***************************************************************************)
RefQEq(x, y) == x[1] * y[2] = y[1] * x[2]

RefQAdd(x, y) == <<x[1] * y[2] + y[1] * x[2], x[2] * y[2]>>

RefQSub(x, y) == <<x[1] * y[2] - y[1] * x[2], x[2] * y[2]>>

RefQMul(x, y) == <<x[1] * y[1], x[2] * y[2]>>

\* x / y, for y # 0
RefQDiv(x, y) == <<x[1] * y[2], x[2] * y[1]>>

RefDerivedTp(m) == RefQMul(<<m.support, 1>>, m.recall)

RefDerivedFp(m) ==
    IF m.precision[1] > 0
    THEN RefQSub(RefQDiv(RefDerivedTp(m), m.precision), RefDerivedTp(m))
    ELSE RefQMul(<<m.support, 1>>, RefQSub(<<1, 1>>, m.recall))

RefDerivedFn(m) == RefQSub(<<m.support, 1>>, RefDerivedTp(m))

C15_AggregateStep ==
    AggregateStep =>
        \A L \in EvalLabels :
            IF L \in DOMAIN results.per_class
            THEN /\ L \in all_labels'
                 /\ RefQEq(agg_tp'[L],
                           RefQAdd(agg_tp[L], RefDerivedTp(results.per_class[L])))
                 /\ RefQEq(agg_fp'[L],
                           RefQAdd(agg_fp[L], RefDerivedFp(results.per_class[L])))
                 /\ RefQEq(agg_fn'[L],
                           RefQAdd(agg_fn[L], RefDerivedFn(results.per_class[L])))
            ELSE /\ (L \in all_labels') = (L \in all_labels)
                 /\ agg_tp'[L] = agg_tp[L]
                 /\ agg_fp'[L] = agg_fp[L]
                 /\ agg_fn'[L] = agg_fn[L]

RECURSIVE RefQTotal(_, _)
RefQTotal(agg, S) ==
    IF S = {} THEN <<0, 1>>
    ELSE LET l == CHOOSE x \in S : TRUE
         IN  RefQAdd(agg[l], RefQTotal(agg, S \ {l}))

\* m holds precision, recall, F1 and support recomputed from tp, fp, fn
RefRecomputed(m, tp, fp, fn) ==
    LET p == IF RefQAdd(tp, fp)[1] > 0 THEN RefQDiv(tp, RefQAdd(tp, fp))
             ELSE <<0, 1>>
        r == IF RefQAdd(tp, fn)[1] > 0 THEN RefQDiv(tp, RefQAdd(tp, fn))
             ELSE <<0, 1>>
        f == IF RefQAdd(p, r)[1] > 0
             THEN RefQDiv(RefQMul(<<2, 1>>, RefQMul(p, r)), RefQAdd(p, r))
             ELSE <<0, 1>>
    IN  /\ RefQEq(m.precision, p)
        /\ RefQEq(m.recall, r)
        /\ RefQEq(m.f1, f)
        /\ RefQEq(m.support, RefQAdd(tp, fn))

C15_FinalMetrics ==
    run_pc = "done" /\ dataset # <<>> =>
        /\ DOMAIN final_metrics.per_class = all_labels
        /\ \A L \in all_labels :
              RefRecomputed(final_metrics.per_class[L],
                            agg_tp[L], agg_fp[L], agg_fn[L])
        /\ RefRecomputed(final_metrics.overall,
                         RefQTotal(agg_tp, EvalLabels),
                         RefQTotal(agg_fp, EvalLabels),
                         RefQTotal(agg_fn, EvalLabels))

\* before the first document the sums are zero and no label is known
C15_StartsFromZero ==
    (run_pc = "load" \/ (run_pc = "docs" /\ doc_i = 1)) =>
        /\ all_labels = {}
        /\ \A L \in EvalLabels :
              agg_tp[L][1] = 0 /\ agg_fp[L][1] = 0 /\ agg_fn[L][1] = 0

C15_BackDerivedAggregation ==
    /\ [][C15_AggregateStep]_vars
    /\ [](C15_FinalMetrics /\ C15_StartsFromZero)

\* two documents, each with one true and one false positive for PERSON
C15_Witness ==
    /\ run_pc = "done"
    /\ Len(dataset) = 2
    /\ agg_tp["PERSON"] = <<2, 1>>
    /\ agg_fp["PERSON"] = <<2, 1>>
    /\ final_metrics.per_class["PERSON"].precision = <<1, 2>>
    /\ final_metrics.per_class["PERSON"].support = <<2, 1>>

(***************************************************************************)
(* C16: assign_base_risk returns the table score of the key that equals    *)
(* its argument up to the case of the letters, 0.0 when there is no such   *)
(* key, changes nothing else, and every score it returns lies in [0, 1]    *)
(* (scores are in hundredths).                                             *)
(***************************************************************************)
RefLowerLetters ==
    <<"a", "b", "c", "d", "e", "f", "g", "h", "i", "j", "k", "l", "m", "n",
      "o", "p", "q", "r", "s", "t", "u", "v", "w", "x", "y", "z">>

RefUpperLetters ==
    <<"A", "B", "C", "D", "E", "F", "G", "H", "I", "J", "K", "L", "M", "N",
      "O", "P", "Q", "R", "S", "T", "U", "V", "W", "X", "Y", "Z">>

\* the two characters are equal, or the upper-case form of c is d
RefUpperIs(c, d) ==
    IF \E i \in 1..26 : RefLowerLetters[i] = c
    THEN \E i \in 1..26 : RefLowerLetters[i] = c /\ RefUpperLetters[i] = d
    ELSE c = d

\* key is the argument in upper case
RefIsUpperOf(key, arg) ==
    /\ Len(LabelChars[key]) = Len(LabelChars[arg])
    /\ \A k \in 1..Len(LabelChars[arg]) :
          RefUpperIs(LabelChars[arg][k], LabelChars[key][k])

C16_CaseInsensitiveRiskLookup ==
    /\ \A key \in DOMAIN BASE_RISK_SCORES :
          BASE_RISK_SCORES[key] >= 0 /\ BASE_RISK_SCORES[key] <= 100
    /\ risk_ret # -1 =>
          /\ risk_ret >= 0 /\ risk_ret <= 100
          /\ \A key \in DOMAIN BASE_RISK_SCORES :
                RefIsUpperOf(key, risk_arg) => risk_ret = BASE_RISK_SCORES[key]
          /\ (\A key \in DOMAIN BASE_RISK_SCORES : ~RefIsUpperOf(key, risk_arg))
                => risk_ret = 0

\* a lower-case label with a table score, after the call
C16_Witness ==
    /\ risk_arg = "person"
    /\ risk_ret = 60

(***************************************************************************)
(* C17: classify_entity_sensitivity returns 'explicit-identifier' exactly  *)
(* for the labels EMAIL, PHONE, SSN and CREDIT_CARD and 'quasi-identifier' *)
(* for every other label, whatever the context: a PERSON in an element of  *)
(* type 'heading' is 'quasi-identifier'.                                   *)
(***************************************************************************)
C17_SensitivityByLabelOnly ==
    sens_ret # "pending" /\ sens_ret # "idle" =>
        /\ sens_ret \in {"explicit-identifier", "quasi-identifier"}
        /\ (sens_ret = "explicit-identifier") =
              (sens_label = "EMAIL" \/ sens_label = "PHONE"
                 \/ sens_label = "SSN" \/ sens_label = "CREDIT_CARD")
        /\ (sens_label = "PERSON" /\ sens_context.type = "heading")
              => sens_ret = "quasi-identifier"

\* a PERSON in a heading, after the call
C17_Witness ==
    /\ sens_label = "PERSON"
    /\ sens_context # NoContext
    /\ sens_context.type = "heading"
    /\ sens_ret = "quasi-identifier"

(***************************************************************************)
(* Vocabulary of the claims about detect_entities.                         *)
(***************************************************************************)
\* element i has been given the list of a finished run on it
RefResolved(i) == i \in 1..Len(document) /\ (detect_calls >= 1 \/ i < elem_idx)

\* the step in which a run on the current element hands over its list
RefRunReturns == detect_pc = "element" /\ detect_pc' = "loop"

\* elements i and j give both detectors the same text, hence the same
\* pattern-sourced and model-sourced candidate lists
RefSameCandidates(i, j) ==
    /\ document[i].text = document[j].text
    /\ pii_matches[document[i].text] = pii_matches[document[j].text]
    /\ nlp[document[i].text] = nlp[document[j].text]

\* C18, as stated: two runs on the same element text with the same candidate
\* lists return identical entity lists.
C18_SameTextSameEntities ==
    \A i, j \in 1..Len(document) :
        (RefResolved(i) /\ RefResolved(j) /\ RefSameCandidates(i, j))
            => document[i].entities = document[j].entities

\* two resolved elements of one text and one type carry identical lists
C18_SameElementSameEntities ==
    \A i, j \in 1..Len(document) :
        (/\ RefResolved(i)
         /\ RefResolved(j)
         /\ RefSameCandidates(i, j)
         /\ document[i].type = document[j].type)
            => document[i].entities = document[j].entities

\* a later run on an element returns the list the earlier run returned
C18_RerunStep ==
    (RefRunReturns /\ detect_calls >= 1)
        => combined_entities = document[elem_idx].entities

\* C18: resolution is deterministic in the element and its candidates: two
\* runs of detect_entities_in_element on elements of the same text and the
\* same type, with the same pattern-sourced and model-sourced candidate
\* lists, return identical entity lists (same entities, same fields, same
\* order), be it a second run on one element or runs on two elements.
C18_DeterministicResolution ==
    []C18_SameElementSameEntities /\ [][C18_RerunStep]_vars

C18_Witness ==
    /\ detect_calls = 2
    /\ Len(document) = 2
    /\ document[1].text = document[2].text
    /\ document[1].type = document[2].type
    /\ Len(document[1].entities) = 2
    /\ document[1].entities[1].source = "ner"
    /\ document[1].entities[2].source = "ner"
    /\ document[1].entities = document[2].entities

\* entity e was built from candidate c
RefBuiltFrom(e, c) ==
    /\ e.text = c.text
    /\ e.label = c.label
    /\ e.start_char = c.start
    /\ e.end_char = c.end

\* the candidates both detectors report for a text
RefCandidatesOf(text) ==
    {pii_matches[text][k] : k \in 1..Len(pii_matches[text])} \cup
    {nlp[text][k] : k \in 1..Len(nlp[text])}

\* the run that returns was given the current element and its own text's
\* candidate lists
RefRunOnOwnText ==
    /\ element.id = document[elem_idx].id
    /\ element.text = document[elem_idx].text
    /\ element.type = document[elem_idx].type
    /\ pattern_entities = pii_matches[document[elem_idx].text]
    /\ ner_entities = nlp[document[elem_idx].text]

\* the list returned for the current element becomes its entities list, and
\* no other element changes
C19_ReplaceStep ==
    RefRunReturns =>
        /\ RefRunOnOwnText
        /\ document'[elem_idx].entities = combined_entities
        /\ \A i \in 1..Len(document) :
              i # elem_idx => document'[i] = document[i]

\* id, text and type of every element stay, and so does the element list;
\* entities lists change in no other step; a second run changes nothing
C19_FrameStep ==
    /\ Len(document') = Len(document)
    /\ \A i \in 1..Len(document) :
          /\ document'[i].id = document[i].id
          /\ document'[i].text = document[i].text
          /\ document'[i].type = document[i].type
    /\ ~RefRunReturns => document' = document
    /\ detect_calls >= 1 => document' = document

\* a resolved element holds only entities built from the candidates of its
\* own text, in a list that equals that of any resolved element of the same
\* text and type, wherever the two stand in the document
C19_OwnTextOnly ==
    \A i \in 1..Len(document) :
        RefResolved(i) =>
            /\ \A k \in 1..Len(document[i].entities) :
                  \E c \in RefCandidatesOf(document[i].text) :
                      /\ RefBuiltFrom(document[i].entities[k], c)
                      /\ document[i].entities[k].element_type = document[i].type
            /\ \A j \in 1..Len(document) :
                  (/\ RefResolved(j)
                   /\ document[j].text = document[i].text
                   /\ document[j].type = document[i].type)
                      => document[j].entities = document[i].entities

\* C19: detect_entities replaces each element's entities list with the
\* result of resolving that element's own text: entities of an earlier run
\* are not retained or merged, a second run leaves the lists of the first,
\* one element's result does not depend on the other elements, and element
\* id, text and type are unchanged.
C19_EntitiesReplaced ==
    /\ [][C19_ReplaceStep /\ C19_FrameStep]_vars
    /\ []C19_OwnTextOnly

C19_Witness ==
    /\ detect_calls = 1
    /\ RefResolved(2)
    /\ detect_pc = "element"
    /\ elem_idx = 2
    /\ returned
    /\ document[1].text # document[2].text
    /\ document[1].entities # <<>>
    /\ document[2].entities # <<>>
    /\ document[1].entities # document[2].entities
    /\ combined_entities = document[2].entities

(***************************************************************************)
(* Vocabulary of the claims about load_kaggle_pii_dataset.                 *)
(***************************************************************************)
\* the three fields of a CSV row parse and have one length
RefRowWellFormed(row) ==
    /\ row.tokens.ok
    /\ row.labels.ok
    /\ row.trailing_whitespace.ok
    /\ Len(row.tokens.value) = Len(row.labels.value)
    /\ Len(row.tokens.value) = Len(row.trailing_whitespace.value)

\* the positions of the well-formed rows among the first k, in order
RECURSIVE RefWellFormedUpTo(_)
RefWellFormedUpTo(k) ==
    IF k = 0 THEN <<>>
    ELSE IF RefRowWellFormed(csv_rows[k])
         THEN Append(RefWellFormedUpTo(k - 1), k)
         ELSE RefWellFormedUpTo(k - 1)

\* dataset entry e is CSV row k with its fields parsed
RefEntryOfRow(e, k) ==
    /\ e.document = csv_rows[k].document
    /\ e.text = csv_rows[k].text
    /\ e.tokens = csv_rows[k].tokens.value
    /\ e.labels = csv_rows[k].labels.value
    /\ e.trailing_whitespace = csv_rows[k].trailing_whitespace.value

\* the loader has read the first row_i - 1 rows and holds exactly the
\* well-formed ones, in order
C20_OnlyWellFormedRowsLoaded ==
    LET kept == RefWellFormedUpTo(row_i - 1)
    IN  /\ Len(dataset) = Len(kept)
        /\ \A j \in 1..Len(kept) : RefEntryOfRow(dataset[j], kept[j])

\* what is being converted or evaluated is a well-formed row, and as many
\* documents have been aggregated as there are well-formed rows at most
C20_OnlyWellFormedRowsConverted ==
    /\ Len(tokens) = Len(labels)
    /\ Len(tokens) = Len(trailing_whitespace)
    /\ run_pc \in {"convert", "evaluate"} =>
          \E k \in 1..Len(csv_rows) :
              /\ RefRowWellFormed(csv_rows[k])
              /\ tokens = csv_rows[k].tokens.value
              /\ labels = csv_rows[k].labels.value
              /\ trailing_whitespace = csv_rows[k].trailing_whitespace.value
              /\ full_text = csv_rows[k].text
    /\ doc_i - 1 <= Len(RefWellFormedUpTo(Len(csv_rows)))
    /\ (run_pc = "done" /\ RefWellFormedUpTo(Len(csv_rows)) # <<>>) =>
          doc_i - 1 = Len(RefWellFormedUpTo(Len(csv_rows)))
    /\ RefWellFormedUpTo(Len(csv_rows)) = <<>> =>
          /\ all_labels = {}
          /\ \A l \in DOMAIN agg_tp :
                agg_tp[l] = <<0, 1>> /\ agg_fp[l] = <<0, 1>> /\ agg_fn[l] = <<0, 1>>
          /\ DOMAIN final_metrics.per_class = {}
          /\ final_metrics.overall.support = <<0, 1>>

\* the loader goes on to the next row after any row; the aggregated counts
\* and labels change only when an evaluated document is aggregated
C20_LoadStep ==
    /\ (run_pc = "load" /\ row_i <= Len(csv_rows)) =>
          (row_i' = row_i + 1 /\ run_pc' = "load")
    /\ ~AggregateStep =>
          UNCHANGED <<agg_tp, agg_fp, agg_fn, all_labels, doc_i>>

\* C20: load_kaggle_pii_dataset returns only the rows whose tokens, labels
\* and trailing_whitespace have equal length; a row with mismatched lengths
\* or an unparsable field is skipped without ending the load, is never
\* converted, and adds nothing to an aggregated count, label or support.
C20_MalformedRowsSkipped ==
    /\ []C20_OnlyWellFormedRowsLoaded
    /\ []C20_OnlyWellFormedRowsConverted
    /\ [][C20_LoadStep]_vars

C20_Witness ==
    /\ run_pc = "done"
    /\ Len(csv_rows) = 2
    /\ csv_rows[1].tokens.ok
    /\ Len(csv_rows[1].tokens.value) # Len(csv_rows[1].labels.value)
    /\ RefRowWellFormed(csv_rows[2])
    /\ Len(dataset) = 1
    /\ doc_i = 2
    /\ agg_tp["PERSON"] = <<1, 1>>
    /\ final_metrics.overall.support = <<1, 1>>

(***************************************************************************)
(* Vocabulary of the claims about segment_document and parse.              *)
(***************************************************************************)
RefWhitespace == {" ", "\n", "\t"}

\* the number of the line that holds position k of the text
RefLineOf(text, k) == 1 + Cardinality({j \in 1..(k - 1) : text[j] = "\n"})

RefLineCount(text) == 1 + Cardinality({j \in 1..Len(text) : text[j] = "\n"})

\* the positions of the characters of line n (its newline apart)
RefLineChars(text, n) ==
    {k \in 1..Len(text) : text[k] # "\n" /\ RefLineOf(text, k) = n}

\* a blank line separates blocks: a line without a character
RefBlankLine(text, n) == RefLineChars(text, n) = {}

\* line n opens a block: it is not blank and follows a blank line or nothing
RefBlockStart(text, n) ==
    /\ n \in 1..RefLineCount(text)
    /\ ~RefBlankLine(text, n)
    /\ n = 1 \/ RefBlankLine(text, n - 1)

\* the lines of the block opened by line n
RefBlockLines(text, n) ==
    {m \in n..RefLineCount(text) : \A j \in n..m : ~RefBlankLine(text, j)}

\* the positions of the characters of that block that are not whitespace
RefBlockInk(text, n) ==
    {k \in 1..Len(text) :
        /\ text[k] \notin RefWhitespace
        /\ RefLineOf(text, k) \in RefBlockLines(text, n)}

\* the opening lines of the non-blank blocks
RefNonBlankBlocks(text) ==
    {n \in 1..RefLineCount(text) :
        RefBlockStart(text, n) /\ RefBlockInk(text, n) # {}}

\* the k-th member of a set of numbers, in increasing order
RefNth(S, k) == CHOOSE n \in S : Cardinality({m \in S : m < n}) = k - 1

\* the characters at the positions P of s, in order
RefAt(s, P) == [k \in 1..Cardinality(P) |-> s[RefNth(P, k)]]

RefInk(s) == RefAt(s, {k \in 1..Len(s) : s[k] \notin RefWhitespace})

RefElemId(k) ==
    IF k = 1 THEN "elem_0" ELSE IF k = 2 THEN "elem_1"
    ELSE IF k = 3 THEN "elem_2" ELSE "elem_3"

\* C21: segment_document returns one element per non-blank block of the
\* input (blocks are separated by blank lines), in document order, with the
\* ids elem_0, elem_1, ... numbered without gaps; no element has empty
\* text, and an empty input yields no element.
C21_OneElementPerBlock ==
    (seg_called /\ seg_text \in SegTexts) =>
        LET blocks == RefNonBlankBlocks(seg_text)
        IN  /\ Len(seg_ret) = Cardinality(blocks)
            /\ \A k \in 1..Len(seg_ret) :
                  /\ seg_ret[k].id = RefElemId(k)
                  /\ seg_ret[k].text # <<>>
                  /\ RefInk(seg_ret[k].text) =
                        RefAt(seg_text, RefBlockInk(seg_text, RefNth(blocks, k)))
            /\ seg_text = <<>> => seg_ret = <<>>

C21_Witness ==
    /\ seg_called
    /\ seg_text = <<"a", "\n", "\n", " ", "\n", "\n", " ", "b">>
    /\ Len(seg_ret) = 2
    /\ seg_ret[1].id = "elem_0"
    /\ seg_ret[2].id = "elem_1"
    /\ seg_ret[2].text = <<"b">>

\* the lower-cased extension of each path: what follows the last dot of the
\* last component, the dot included, when a character other than a dot
\* precedes that dot in the component, and nothing otherwise
RefExtension ==
    (<<"d", ".", "d", "o", "c", "x">> :> <<".", "d", "o", "c", "x">>) @@
    (<<"n", ".", "t", "x", "t">> :> <<".", "t", "x", "t">>) @@
    (<<"n", ".", "p", "d", "f">> :> <<".", "p", "d", "f">>) @@
    (<<"n", ".", "P", "D", "F">> :> <<".", "p", "d", "f">>) @@
    (<<"n", ".", "T", "X", "T">> :> <<".", "t", "x", "t">>) @@
    (<<"n">> :> <<>>) @@
    (<<"n", ".">> :> <<".">>) @@
    (<<".", "t", "x", "t">> :> <<>>) @@
    (<<"a", ".", "b", "/", "c">> :> <<>>) @@
    (<<"n", ".", "t", "x", "t", ".", "p", "d", "f">> :> <<".", "p", "d", "f">>) @@
    (<<"a", ".", "p", "d", "f", "/", "n", ".", "t", "x", "t">> :> <<".", "t", "x", "t">>)

RefTextExtension(ext) == ext = <<".", "t", "x", "t">> \/ ext = <<>> \/ ext = <<".">>

RefPass ==
    [k \in 1..(Len(pattern_entities) + Len(ner_entities)) |->
        IF k <= Len(pattern_entities)
        THEN [cand |-> pattern_entities[k], source |-> "pattern"]
        ELSE [cand |-> ner_entities[k - Len(pattern_entities)], source |-> "ner"]]

\* candidate i of the pass is checksum-valid
RefInPool(pass, i) == ~(pass[i].source = "pattern" /\ RefCardFails(pass[i].cand))

\* first come, first served: candidate i is in the pool and shares no
\* character index with a candidate accepted before it
RECURSIVE RefGreedyAccepts(_, _)
RefGreedyAccepts(pass, i) ==
    /\ RefInPool(pass, i)
    /\ \A k \in 1..(i - 1) :
          RefGreedyAccepts(pass, k) => ~CandsShare(pass[k].cand, pass[i].cand)

\* how many candidates the pass has gone through
RefPassed == (p_idx - 1) + (n_idx - 1)

\* the positions accepted among the first n of the pass
RefAcceptedUpTo(pass, n) == {i \in 1..n : RefGreedyAccepts(pass, i)}

\* entity e is candidate c of that source
RefEntityIs(e, c) ==
    /\ e.source = c.source
    /\ e.text = c.cand.text
    /\ e.label = c.cand.label
    /\ e.start_char = c.cand.start
    /\ e.end_char = c.cand.end

\* during the pass the list holds the accepted candidates, in pass order
C23_PassInvariant ==
    (~returned /\ element.id # "none") =>
        LET pass == RefPass
            acc == RefAcceptedUpTo(pass, RefPassed)
        IN  /\ Len(combined_entities) = Cardinality(acc)
            /\ \A k \in 1..Len(combined_entities) :
                  RefEntityIs(combined_entities[k], pass[RefNth(acc, k)])

\* the returned list holds the accepted candidates and nothing else; of two
\* overlapping candidates the earlier one, when accepted, is in the list and
\* the later one is not, whatever their lengths; every discarded candidate
\* of the pool overlaps an entity of the list
C23_Returned ==
    (returned /\ element.id # "none") =>
        LET pass == RefPass
            acc == RefAcceptedUpTo(pass, Len(pass))
        IN  /\ Len(combined_entities) = Cardinality(acc)
            /\ \A i \in acc :
                  \E k \in 1..Len(combined_entities) :
                      RefEntityIs(combined_entities[k], pass[i])
            /\ \A k \in 1..Len(combined_entities) :
                  \E i \in acc : RefEntityIs(combined_entities[k], pass[i])
            /\ \A i, j \in 1..Len(pass) :
                  (i < j /\ CandsShare(pass[i].cand, pass[j].cand) /\ i \in acc)
                      => j \notin acc
            /\ \A j \in 1..Len(pass) :
                  (RefInPool(pass, j) /\ j \notin acc) =>
                      \E k \in 1..Len(combined_entities) :
                          CandEntShare(pass[j].cand, combined_entities[k])

\* C23: span resolution is a first-come greedy pass over the checksum-valid
\* pattern candidates in their given order, then the model candidates in
\* theirs: a candidate is accepted if and only if its span shares no
\* character index with a candidate accepted before it.  An earlier accepted
\* candidate beats a later overlapping one even when the later one is
\* longer, and every discarded candidate overlaps some accepted entity.
C23_FirstComeGreedy == C23_PassInvariant /\ C23_Returned

\* a short pattern candidate beat a longer, later model candidate, which in
\* turn did not stop a model candidate that overlaps only it
C23_Witness ==
    /\ returned
    /\ Len(pattern_entities) = 1
    /\ Len(ner_entities) = 2
    /\ pattern_entities[1].start = 0 /\ pattern_entities[1].end = 1
    /\ pattern_entities[1].label = "ZIP_CODE"
    /\ ner_entities[1].start = 0 /\ ner_entities[1].end = 3
    /\ ner_entities[2].start = 1 /\ ner_entities[2].end = 3
    /\ Len(combined_entities) = 2
    /\ combined_entities[1].source = "pattern"
    /\ combined_entities[2].source = "ner"
    /\ combined_entities[2].start_char = 1

(***************************************************************************)
(* Vocabulary of the claim about the choice among qualifying entries.      *)
(***************************************************************************)
\* the unconsumed entries of the current element that carry the
\* prediction's label and qualify for it under the threshold
RefQualifying(pred) ==
    {g \in 1..Len(RefGts(e_idx)) :
        /\ ~RefConsumed(e_idx, g)
        /\ RefGtLabel(RefGts(e_idx)[g]) = pred.label
        /\ RefRatioAtLeast(RefOverlap(pred, RefGts(e_idx)[g]),
                           pred.end_char - pred.start_char, overlap_threshold)
        /\ RefRatioAtLeast(RefOverlap(pred, RefGts(e_idx)[g]),
                           RefGts(e_idx)[g].end_char - RefGts(e_idx)[g].start_char,
                           overlap_threshold)}

\* what a step adds to the consumed entries, over all labels
RefNewlyConsumed == UNION {gt_matches'[L] \ gt_matches[L] : L \in EvalLabels}

RefNewlyMatched == UNION {pred_matches'[L] \ pred_matches[L] : L \in EvalLabels}

C24_GreatestOverlapStep ==
    (MatchLoopStep /\ match_strategy = "overlap") =>
        LET pred == doc_elements[e_idx].entities[q_idx]
            id == doc_elements[e_idx].id
            Q == RefQualifying(pred)
        IN  /\ \A L \in EvalLabels :
                  gt_matches[L] \subseteq gt_matches'[L]
            /\ IF Q = {}
               THEN /\ RefNewlyConsumed = {}
                    /\ RefNewlyMatched = {}
                    /\ false_positives'[pred.label] = false_positives[pred.label] + 1
               ELSE \E g \in Q :
                       /\ \A h \in Q :
                             RefOverlap(pred, RefGts(e_idx)[h])
                                <= RefOverlap(pred, RefGts(e_idx)[g])
                       /\ RefNewlyConsumed = {<<id, g>>}
                       /\ <<id, g>> \in gt_matches'[pred.label]
                       /\ RefNewlyMatched = {<<id, q_idx>>}
                       /\ <<id, q_idx>> \in pred_matches'[pred.label]
                       /\ true_positives'[pred.label] = true_positives[pred.label] + 1

\* C24: under 'overlap', when several unconsumed same-label ground-truth
\* entries qualify for a prediction, the prediction is matched to one whose
\* raw overlap length is the greatest among them, and both are marked
\* consumed; without a qualifying entry it is a false positive; the
\* predictions are served in list order, each against what the earlier
\* ones left unconsumed.
C24_GreatestOverlapWins == [][C24_GreatestOverlapStep]_vars

\* a prediction had a qualifying entry of overlap 1 listed before one of
\* overlap 2 and took the latter
C24_Witness ==
    /\ match_strategy = "overlap"
    /\ overlap_threshold = [num |-> 1, den |-> 2]
    /\ e_idx = 1
    /\ q_idx = 2
    /\ Len(RefGts(1)) = 2
    /\ doc_elements[1].entities[1].label = "PERSON"
    /\ doc_elements[1].entities[1].start_char = 0
    /\ doc_elements[1].entities[1].end_char = 2
    /\ RefGtLabel(RefGts(1)[1]) = "PERSON"
    /\ RefGtLabel(RefGts(1)[2]) = "PERSON"
    /\ RefOverlap(doc_elements[1].entities[1], RefGts(1)[1]) = 1
    /\ RefOverlap(doc_elements[1].entities[1], RefGts(1)[2]) = 2
    /\ gt_matches["PERSON"] = {<<"elem_0", 2>>}
    /\ pred_matches["PERSON"] = {<<"elem_0", 1>>}

(***************************************************************************)
(* Vocabulary of the claims about the tags of the conversion.              *)
(***************************************************************************)
RefIsB(tag) == Len(tag) >= 2 /\ tag[1] = "B" /\ tag[2] = "-"

RefIsI(tag) == Len(tag) >= 2 /\ tag[1] = "I" /\ tag[2] = "-"

\* what follows the two characters of the prefix
RefSuffix(tag) == [k \in 1..(Len(tag) - 2) |-> tag[k + 2]]

\* the step handles token tok_i, which was found
RefTokenHandled == bio_pc = "loop" /\ tok_i' = tok_i + 1

RefEntityOpen == current_entity_tokens # <<>>

\* the entity between two offsets of the text
RefEntity(label, start, end) ==
    [text |-> [k \in 1..(end - start) |-> full_text[start + k]],
     label |-> label, start_char |-> start, end_char |-> end]

\* a B- token met while an entity is open appends that entity, ended at the
\* previous token's end, and opens one at its own start
C25_BeginStep ==
    (RefTokenHandled /\ RefIsB(labels[tok_i])) =>
        /\ RefEntityOpen =>
              entities' = Append(entities,
                                 RefEntity(current_entity_label,
                                           current_entity_start_char,
                                           RefTokenEnd(tok_i - 1)))
        /\ ~RefEntityOpen => entities' = entities
        /\ current_entity_tokens' # <<>>
        /\ current_entity_start_char' = RefTokenStart(tok_i)
        /\ current_entity_label' = RefSuffix(labels[tok_i])

\* two consecutive B- tokens give two entities, the first ended at its own
\* token's end, also when the labels are equal
C25_ConsecutiveBegins ==
    bio_pc = "returned" =>
        \A i \in 1..(Len(tokens) - 1) :
            (RefIsB(labels[i]) /\ RefIsB(labels[i + 1])) =>
                \E x \in 1..(Len(bio_ret) - 1) :
                    /\ bio_ret[x] = RefEntity(RefSuffix(labels[i]),
                                              RefTokenStart(i), RefTokenEnd(i))
                    /\ bio_ret[x + 1].start_char = RefTokenStart(i + 1)
                    /\ bio_ret[x + 1].label = RefSuffix(labels[i + 1])

\* C25: a B- tag met while an entity is open closes that entity at the
\* previous token's end offset (not the current token's) and opens a new
\* entity at the current token's start offset with the tag's label suffix,
\* so two consecutive B- tokens yield two separate entities even when their
\* labels are equal.
C25_BeginClosesAndOpens == [][C25_BeginStep]_vars /\ []C25_ConsecutiveBegins

\* two B-PERSON tokens apart in the text, returned as two PERSON entities
C25_Witness ==
    /\ bio_pc = "returned"
    /\ Len(tokens) = 2
    /\ labels = <<BTag(PERSON), BTag(PERSON)>>
    /\ Len(bio_ret) = 2
    /\ bio_ret[1].label = PERSON
    /\ bio_ret[2].label = PERSON
    /\ bio_ret[1].end_char < bio_ret[2].start_char
    /\ bio_ret[1].end_char = RefTokenEnd(1)
    /\ RefTokenEnd(1) < RefTokenEnd(2)

\* the token continues the open entity: an I- tag with the entity's label
RefContinues(tag) ==
    RefIsI(tag) /\ RefEntityOpen /\ RefSuffix(tag) = current_entity_label

\* an O tag, or an I- tag that continues nothing, appends the open entity,
\* ended at the previous token's end, and leaves none open; an I- tag that
\* continues the open entity changes neither the list nor the entity's start
C26_OutsideStep ==
    /\ (RefTokenHandled /\ ~RefIsB(labels[tok_i]) /\ ~RefContinues(labels[tok_i])) =>
          /\ RefEntityOpen =>
                entities' = Append(entities,
                                   RefEntity(current_entity_label,
                                             current_entity_start_char,
                                             RefTokenEnd(tok_i - 1)))
          /\ ~RefEntityOpen => entities' = entities
          /\ current_entity_tokens' = <<>>
    /\ (RefTokenHandled /\ RefContinues(labels[tok_i])) =>
          /\ entities' = entities
          /\ current_entity_tokens' # <<>>
          /\ current_entity_start_char' = current_entity_start_char
          /\ current_entity_label' = current_entity_label

\* token k is an O token or an I- token that continued nothing
RefOutside(k) ==
    /\ ~RefIsB(labels[k])
    /\ \/ ~RefIsI(labels[k])
       \/ ~\E i \in 1..(k - 1) :
              /\ RefIsB(labels[i])
              /\ RefSuffix(labels[i]) = RefSuffix(labels[k])
              /\ \A j \in (i + 1)..(k - 1) : labels[j] = labels[k]

\* such a token lies in no returned entity, and there are as many entities
\* as B- tags
C26_Returned ==
    bio_pc = "returned" =>
        /\ \A k \in 1..Len(tokens) :
              RefOutside(k) =>
                  \A x \in 1..Len(bio_ret) :
                      \/ RefTokenEnd(k) <= bio_ret[x].start_char
                      \/ bio_ret[x].end_char <= RefTokenStart(k)
        /\ Len(bio_ret) = Cardinality({k \in 1..Len(labels) : RefIsB(labels[k])})

\* C26: an O tag, or an I- tag whose label differs from the open entity's
\* or that arrives with no entity open, closes the open entity at the
\* previous token's end offset and leaves no entity open: that token
\* belongs to no entity and opens none.  Entities are opened only by B-
\* tags, so a conversion that returns has as many entities as B- tags.
C26_OutsideClosesOnly == [][C26_OutsideStep]_vars /\ []C26_Returned

\* an I- tag of another label closed the entity, an O tag followed
C26_Witness ==
    /\ bio_pc = "returned"
    /\ labels = <<BTag(PERSON), ITag(EMAIL), OTag>>
    /\ Len(bio_ret) = 1
    /\ bio_ret[1].label = PERSON
    /\ bio_ret[1].end_char = RefTokenEnd(1)
    /\ RefTokenStart(2) >= bio_ret[1].end_char

\* C27: every entity returned by convert_bio_to_offset_entities (and every
\* entity it has closed so far) satisfies
\* 0 <= start_char <= end_char <= len(full_text), and its text is
\* full_text[start_char:end_char].
C27_EntityWithinText ==
    \A list \in {entities, bio_ret} :
        \A x \in 1..Len(list) :
            /\ 0 <= list[x].start_char
            /\ list[x].start_char <= list[x].end_char
            /\ list[x].end_char <= Len(full_text)
            /\ Len(list[x].text) = list[x].end_char - list[x].start_char
            /\ \A k \in 1..Len(list[x].text) :
                  list[x].text[k] = full_text[list[x].start_char + k]

\* an entity of two tokens with the whitespace between them, ending with
\* the text
C27_Witness ==
    /\ bio_pc = "returned"
    /\ Len(bio_ret) = 2
    /\ bio_ret[2].end_char = Len(full_text)
    /\ bio_ret[2].start_char > 0
    /\ \E k \in 1..Len(bio_ret[2].text) : bio_ret[2].text[k] = " "
    /\ labels[3] = ITag(EMAIL)

\* C28: the entities returned by convert_bio_to_offset_entities (and those
\* closed so far) are in ascending start_char order and pairwise
\* non-overlapping: each entity's end_char is at most the next entity's
\* start_char, and the token offsets the cursor finds never decrease.
C28_AscendingAndDisjoint ==
    /\ \A list \in {entities, bio_ret} :
          /\ \A x \in 1..(Len(list) - 1) :
                /\ list[x].start_char <= list[x + 1].start_char
                /\ list[x].end_char <= list[x + 1].start_char
          /\ \A x, y \in 1..Len(list) :
                x < y =>
                    \A k \in list[x].start_char..(list[x].end_char - 1) :
                        k \notin list[y].start_char..(list[y].end_char - 1)
    /\ bio_pc = "returned" =>
          \A k \in 1..(Len(tokens) - 1) :
              /\ RefTokenEnd(k) <= RefTokenStart(k + 1)
              /\ RefTokenStart(k) <= RefTokenStart(k + 1)

\* three entities, the second right after the first, the third after a gap
C28_Witness ==
    /\ bio_pc = "returned"
    /\ Len(bio_ret) = 3
    /\ bio_ret[1].end_char = bio_ret[2].start_char
    /\ bio_ret[2].end_char < bio_ret[3].start_char
    /\ bio_ret[1].start_char < bio_ret[1].end_char

(***************************************************************************)
(* C29: for one element and overlap matching with a threshold of at least  *)
(* 1/2, when the predictions do not overlap one another and come by        *)
(* ascending start, and the ground-truth entries of each label (the label  *)
(* they are matched under, after label_map) do not overlap one another and *)
(* come by ascending start, the true positives of every label number as    *)
(* many as a largest one-to-one pairing of predictions with qualifying     *)
(* ground-truth entries of that label; above 1/2, whatever the order of    *)
(* such predictions, TP is that number, FP the label's other predictions   *)
(* and FN the label's other ground-truth entries, none of which depends    *)
(* on the order.                                                           *)
(***************************************************************************)
RefPreds == doc_elements[1].entities

RefDisjoint(a, b) ==
    \A k \in a.start_char..(a.end_char - 1) : k \notin b.start_char..(b.end_char - 1)

RefPredsDisjoint ==
    \A i, j \in 1..Len(RefPreds) : i < j => RefDisjoint(RefPreds[i], RefPreds[j])

RefPredsAscending ==
    \A i, j \in 1..Len(RefPreds) :
        i < j => RefPreds[i].start_char <= RefPreds[j].start_char

RefGtsDisjointAscending ==
    \A i, j \in 1..Len(RefGts(1)) :
        (i < j /\ RefGtLabel(RefGts(1)[i]) = RefGtLabel(RefGts(1)[j])) =>
            /\ RefDisjoint(RefGts(1)[i], RefGts(1)[j])
            /\ RefGts(1)[i].start_char <= RefGts(1)[j].start_char

\* the pairs (prediction, ground-truth entry) of label L that qualify
RefEdges(L) ==
    {qg \in (1..Len(RefPreds)) \X (1..Len(RefGts(1))) :
        /\ RefPreds[qg[1]].label = L
        /\ RefGtLabel(RefGts(1)[qg[2]]) = L
        /\ RefRatioAtLeast(RefOverlap(RefPreds[qg[1]], RefGts(1)[qg[2]]),
                           RefPreds[qg[1]].end_char - RefPreds[qg[1]].start_char,
                           overlap_threshold)
        /\ RefRatioAtLeast(RefOverlap(RefPreds[qg[1]], RefGts(1)[qg[2]]),
                           RefGts(1)[qg[2]].end_char - RefGts(1)[qg[2]].start_char,
                           overlap_threshold)}

RefOneToOne(M) ==
    \A a, b \in M : a # b => (a[1] # b[1] /\ a[2] # b[2])

RefMaximumMatching(L) ==
    CHOOSE n \in 0..MaxEvalEntries + 1 :
        /\ \E M \in SUBSET RefEdges(L) : RefOneToOne(M) /\ Cardinality(M) = n
        /\ \A M \in SUBSET RefEdges(L) : RefOneToOne(M) => Cardinality(M) <= n

RefPredsLabelled(L) == Cardinality({q \in 1..Len(RefPreds) : RefPreds[q].label = L})

RefGtsLabelled(L) ==
    Cardinality({g \in 1..Len(RefGts(1)) : RefGtLabel(RefGts(1)[g]) = L})

RefMatchingCase ==
    /\ ev_done
    /\ Len(doc_elements) = 1
    /\ match_strategy = "overlap"
    /\ RefPredsDisjoint
    /\ RefGtsDisjointAscending

C29_GreedyIsMaximum ==
    /\ (/\ RefMatchingCase
        /\ RefPredsAscending
        /\ 2 * overlap_threshold.num >= overlap_threshold.den) =>
            \A L \in EvalLabels : true_positives[L] = RefMaximumMatching(L)
    /\ (/\ RefMatchingCase
        /\ 2 * overlap_threshold.num > overlap_threshold.den) =>
            \A L \in EvalLabels :
                /\ true_positives[L] = RefMaximumMatching(L)
                /\ false_positives[L] = RefPredsLabelled(L) - true_positives[L]
                /\ false_negatives[L] = RefGtsLabelled(L) - true_positives[L]

\* at 1/2 the second prediction qualifies for both ground-truth entries,
\* finds the first one taken and is matched with the second
C29_Witness ==
    /\ RefMatchingCase
    /\ RefPredsAscending
    /\ 2 * overlap_threshold.num = overlap_threshold.den
    /\ {<<1, 1>>, <<2, 1>>, <<2, 2>>} \subseteq RefEdges("PERSON")
    /\ true_positives["PERSON"] = 2
    /\ gt_matches["PERSON"] = {<<"elem_0", 1>>, <<"elem_0", 2>>}

(***************************************************************************)
(* C30: in exact arithmetic, when a document's label has at least one true *)
(* positive, the counts the run derives from that label's precision,       *)
(* recall and support and adds to its sums are the TP, FP and FN that the  *)
(* evaluation of the document counted (a label the document does not       *)
(* report has counted nothing and adds nothing); the sums start from zero  *)
(* and the final figures are computed from them, so that a corpus whose    *)
(* reported pairs all have a true positive gets the per-label and overall  *)
(* precision, recall and support of the summed raw counts, which for a     *)
(* corpus of one document are the counts of that document.                 *)
(***************************************************************************)
RefRaw(count) == <<count, 1>>

RefReported == DOMAIN results.per_class

C30_DocumentStep ==
    AggregateStep =>
        \A L \in EvalLabels :
            IF L \in RefReported
            THEN true_positives[L] >= 1 =>
                    /\ RefQEq(agg_tp'[L], RefQAdd(agg_tp[L], RefRaw(true_positives[L])))
                    /\ RefQEq(agg_fp'[L], RefQAdd(agg_fp[L], RefRaw(false_positives[L])))
                    /\ RefQEq(agg_fn'[L], RefQAdd(agg_fn[L], RefRaw(false_negatives[L])))
            ELSE /\ true_positives[L] = 0
                 /\ false_positives[L] = 0
                 /\ false_negatives[L] = 0
                 /\ RefQEq(agg_tp'[L], agg_tp[L])
                 /\ RefQEq(agg_fp'[L], agg_fp[L])
                 /\ RefQEq(agg_fn'[L], agg_fn[L])

\* m holds the precision, recall and support of the counts tp, fp, fn
RefFiguresOf(m, tp, fp, fn) ==
    /\ IF tp + fp > 0 THEN RefQEq(m.precision, <<tp, tp + fp>>)
       ELSE m.precision[1] = 0
    /\ IF tp + fn > 0 THEN RefQEq(m.recall, <<tp, tp + fn>>)
       ELSE m.recall[1] = 0
    /\ RefQEq(m.support, RefRaw(tp + fn))

RECURSIVE RefCountTotal(_, _)
RefCountTotal(count, S) ==
    IF S = {} THEN 0
    ELSE LET l == CHOOSE x \in S : TRUE
         IN  count[l] + RefCountTotal(count, S \ {l})

\* the sums hold whole counts c: the figures reported are those of c
RefFiguresOfSums(tp, fp, fn) ==
    /\ \A L \in all_labels :
          /\ RefQEq(agg_tp[L], RefRaw(tp[L]))
          /\ RefQEq(agg_fp[L], RefRaw(fp[L]))
          /\ RefQEq(agg_fn[L], RefRaw(fn[L]))
          /\ RefFiguresOf(final_metrics.per_class[L], tp[L], fp[L], fn[L])
    /\ RefFiguresOf(final_metrics.overall,
                    RefCountTotal(tp, all_labels), RefCountTotal(fp, all_labels),
                    RefCountTotal(fn, all_labels))

\* one document: the raw counts of the corpus are those of its evaluation
C30_OneDocumentCorpus ==
    (/\ run_pc = "done"
     /\ Len(dataset) = 1
     /\ \A L \in all_labels : true_positives[L] >= 1) =>
        /\ DOMAIN final_metrics.per_class = all_labels
        /\ RefFiguresOfSums(true_positives, false_positives, false_negatives)

\* any corpus: whatever whole counts the sums have reached, the final
\* figures are the figures of these counts
C30_FiguresFromSums ==
    run_pc = "done" /\ dataset # <<>> =>
        \A tp, fp, fn \in [all_labels -> 0..(2 * MaxRows)] :
            (\A L \in all_labels :
                /\ RefQEq(agg_tp[L], RefRaw(tp[L]))
                /\ RefQEq(agg_fp[L], RefRaw(fp[L]))
                /\ RefQEq(agg_fn[L], RefRaw(fn[L]))) =>
                    RefFiguresOfSums(tp, fp, fn)

C30_SumsStartAtZero ==
    run_pc = "load" =>
        \A L \in EvalLabels :
            agg_tp[L][1] = 0 /\ agg_fp[L][1] = 0 /\ agg_fn[L][1] = 0

C30_RawCountsRecovered ==
    /\ [][C30_DocumentStep]_vars
    /\ [](C30_OneDocumentCorpus /\ C30_FiguresFromSums /\ C30_SumsStartAtZero)

\* two documents with one true positive, one false positive and one missed
\* entry each
C30_Witness ==
    /\ run_pc = "done"
    /\ Len(dataset) = 2
    /\ all_labels = {"PERSON"}
    /\ true_positives["PERSON"] = 1
    /\ false_positives["PERSON"] = 1
    /\ false_negatives["PERSON"] = 1
    /\ RefQEq(agg_tp["PERSON"], <<2, 1>>)
    /\ RefQEq(agg_fp["PERSON"], <<2, 1>>)
    /\ RefQEq(agg_fn["PERSON"], <<2, 1>>)
    /\ RefQEq(final_metrics.per_class["PERSON"].precision, <<1, 2>>)
    /\ RefQEq(final_metrics.per_class["PERSON"].recall, <<1, 2>>)
    /\ RefQEq(final_metrics.overall.support, <<4, 1>>)

====
